---- MODULE Spec2Model ----
(***************************************************************************)
(* Invite tracker: the TrackedJoin lifecycle (join upsert, leave update)   *)
(* and the periodic validation task of index.js, over a MongoDB collection *)
(* of TrackedJoin documents; the invite-uses cache and the attribution     *)
(* engine of the GuildMemberAdd handler, over the platform's live invites. *)
(***************************************************************************)
EXTENDS Bags, Integers, FiniteSets, Sequences, TLC

\* ---------------------------------------------------------------- bounds
\* the clock stops at MaxTime
MaxTime == 2
\* join events, leave events and timer firings handled in one behaviour
MaxEvents == 3
\* documents in the store the queries run over
MaxRecords == 3

\* ------------------------------------------------------------- constants
\* validationPeriodDays * 24 * 60 * 60 * 1000, scaled to clock units
VALIDATION_PERIOD_MS == 1
\* config.leaderboard.limit, scaled to the inviters of the model
LEADERBOARD_LIMIT == 2

Guilds == {"g1"}
\* the guilds the bot is a member of
Communities == {"g1", "g2"}
Users == {"u1", "u2"}
\* what the attribution engine hands to the join lifecycle
Attributions ==
    { [inviterId |-> "a", inviteCode |-> "cA"],
      [inviterId |-> "b", inviteCode |-> "cB"] }

\* the two timers of ClientReady: setInterval and the delayed setTimeout
Runs == {"interval", "initial"}

VARIABLES
    now,             \* the wall clock (Date.now())
    stripsUndefined, \* whether the installed Mongoose drops undefined $set keys
    trackedJoins,    \* the TrackedJoin collection: _id -> document
    inserting,       \* bag of upserts that matched no document and have not inserted yet
    events,          \* number of join, leave and timer events handled so far
    lastOp,          \* what the join or leave handler that ran last logged
    pc,              \* per validation run: position in validatePendingJoins
    validationCutoffDate,
    validationTime,
    candidates,      \* per run: result of the find
    todo,            \* per run: candidates the loop has not reached yet
    guildMemberPresenceCache,
    bulkOps,
    bulkResult,
    liveInvites,     \* the platform: guild -> (invite code -> live invite)
    permissions,     \* the platform: guild -> what guild.members.me may do
    inviteUsesCache, \* guild -> (invite code -> uses), guilds without entry absent
    userInvites,     \* the UserInvite collection: _id -> document
    staleCleanup,    \* _ids handed to _cleanupStaleInvites and not deleted yet
    joinCall,        \* the GuildMemberAdd handler in flight and its locals
    otherJoinCall,   \* a second GuildMemberAdd handler in flight, suspended at an await
    clientGuilds,    \* client.guilds.cache: the guilds the bot is in
    PERFORM_GUILD_DELETE_CLEANUP, \* process.env.PERFORM_GUILD_DELETE_CLEANUP === 'true'
    guildCleanup,    \* guilds whose _performGuildCleanup has its second deleteMany to run
    inviteCmd        \* per interaction: the /invite command in flight and its locals

vars == << now, stripsUndefined, trackedJoins, inserting, events, lastOp,
           pc, validationCutoffDate, validationTime, candidates, todo,
           guildMemberPresenceCache, bulkOps, bulkResult,
           liveInvites, permissions, inviteUsesCache, userInvites,
           staleCleanup, joinCall, otherJoinCall, clientGuilds,
           PERFORM_GUILD_DELETE_CLEANUP, guildCleanup, inviteCmd >>

storeVars == << trackedJoins, inserting >>
runVars == << pc, validationCutoffDate, validationTime, candidates, todo,
              guildMemberPresenceCache, bulkOps, bulkResult >>
platformVars == << liveInvites, permissions >>
inviteVars == << inviteUsesCache, userInvites, staleCleanup >>
commandVars == << PERFORM_GUILD_DELETE_CLEANUP, guildCleanup, inviteCmd >>

\* an optional Date field: {} when the document has none, {t} otherwise
NoDate == {}

Ids == DOMAIN trackedJoins

\* no handler result is on the log
NoOp == [ op |-> "none" ]

\* the locals of a validation run that is not running
NoBulkResult == [ error |-> "none", modifiedCount |-> 0 ]

\* the GuildMemberAdd handler is not running; an optional value is {} for
\* null and {v} otherwise. cachedUses is {} while the Map the handler got
\* from _ensureInviteCache is still the entry of the cache, and holds that
\* Map once the entry has been replaced or deleted; fetched is the answer of a
\* guild.invites.fetch() not yet returned to. inviteUsed and cacheExisted
\* record the join itself: the invite the member came through, and whether
\* the guild had a cache entry then
NoJoinCall ==
    [ pc |-> "idle", guildId |-> "", userId |-> "", currentInvites |-> {},
      attribution |-> {}, staleInviteIds |-> << >>, potentialAttributions |-> << >>,
      cachedUses |-> {}, fetched |-> {}, inviteUsed |-> {}, cacheExisted |-> FALSE ]

\* the interactions of the /invite command that can be in flight together
Slots == {1, 2}

\* the /invite command is not running
NoInviteCmd ==
    [ pc |-> "idle", guildId |-> "", userId |-> "", inviteCode |-> {},
      inviteExistsOnDiscord |-> FALSE, newCode |-> {},
      validatedCount |-> 0, pendingCount |-> 0, countError |-> FALSE ]

\* no command has run and the bot has left no guild; the cleanup on guild
\* delete is off unless the environment turns it on
NoCommands ==
    /\ PERFORM_GUILD_DELETE_CLEANUP = FALSE
    /\ guildCleanup = {}
    /\ inviteCmd = [ s \in Slots |-> NoInviteCmd ]

\* ------------------------------------------------ TrackedJoin documents
NewTrackedJoin(guildId, inviteeId, inviterId, inviteCode, joinTime) ==
    [ guildId |-> guildId, inviteeId |-> inviteeId, inviterId |-> inviterId,
      inviteCodeUsed |-> inviteCode, joinTimestamp |-> joinTime,
      status |-> "pending", validationTimestamp |-> NoDate,
      leaveTimestamp |-> NoDate ]

\* $set of a key to undefined: dropped from the update by a Mongoose that
\* strips undefined keys, written as null (no date) by one that does not
SetUndefined(old, strips) == IF strips THEN old ELSE NoDate

\* filter of the upsert in _createOrUpdatePendingJoin
UpsertFilter(doc, guildId, inviteeId) ==
    doc.guildId = guildId /\ doc.inviteeId = inviteeId

\* the $set of _createOrUpdatePendingJoin applied to a matched document
UpsertSet(doc, inviterId, inviteCode, joinTime, strips) ==
    [ doc EXCEPT !.inviterId = inviterId,
                 !.inviteCodeUsed = inviteCode,
                 !.joinTimestamp = joinTime,
                 !.status = "pending",
                 !.validationTimestamp = SetUndefined(@, strips),
                 !.leaveTimestamp = SetUndefined(@, strips) ]

\* the leave filter without its status condition
LeaveFilter_AnyStatus(doc, guildId, userId) ==
    doc.guildId = guildId /\ doc.inviteeId = userId

\* the leave filter without its member condition
LeaveFilter_AnyMember(doc, guildId, userId) ==
    doc.guildId = guildId /\ doc.status = "pending"

\* filter of the updateMany in _markJoinsAsLeftEarly
LeaveFilter(doc, guildId, userId) ==
    doc.guildId = guildId /\ doc.inviteeId = userId /\ doc.status = "pending"

\* a leave update that writes the status alone
LeaveSet_StatusOnly(doc, leaveTime) ==
    [ doc EXCEPT !.status = "left_early" ]

\* the leave update also rewriting the join time
LeaveSet_ResetsJoinTimestamp(doc, leaveTime) ==
    [ doc EXCEPT !.status = "left_early", !.leaveTimestamp = {leaveTime},
                 !.joinTimestamp = leaveTime ]

\* $set of the updateMany in _markJoinsAsLeftEarly
LeaveSet(doc, leaveTime) ==
    [ doc EXCEPT !.status = "left_early", !.leaveTimestamp = {leaveTime} ]

\* new Date(Date.now() - VALIDATION_PERIOD_MS)
ValidationCutoff(nowMs) == nowMs - VALIDATION_PERIOD_MS

\* the find with $lt in place of $lte
CandidateFilter_Lt(doc, cutoff) ==
    doc.status = "pending" /\ doc.joinTimestamp < cutoff

\* filter of the find in validatePendingJoins
CandidateFilter(doc, cutoff) ==
    doc.status = "pending" /\ doc.joinTimestamp <= cutoff

\* _prepareValidationUpdate returned null
NoUpdate == [ status |-> "none" ]

\* the left branch writing the timestamp of the present branch
ValidationUpdateData_WrongTimestampField(memberStatus, eventTime) ==
    IF memberStatus = "present"
    THEN [ status |-> "validated", validationTimestamp |-> {eventTime} ]
    ELSE IF memberStatus = "left"
    THEN [ status |-> "left_early", validationTimestamp |-> {eventTime} ]
    ELSE [ status |-> "none" ]

\* _prepareValidationUpdate: the $set for a presence status
ValidationUpdateData(memberStatus, eventTime) ==
    IF memberStatus = "present"
    THEN [ status |-> "validated", validationTimestamp |-> {eventTime} ]
    ELSE IF memberStatus = "left"
    THEN [ status |-> "left_early", leaveTimestamp |-> {eventTime} ]
    ELSE NoUpdate

\* the updateOne filtered on _id alone
ValidationUpdateFilter_IdOnly(doc) == TRUE

\* _prepareValidationUpdate: the filter of the updateOne
ValidationUpdateFilter(doc) == doc.status = "pending"

\* an update that leaves the status as it was
ApplyUpdateData_KeepsStatus(doc, upd) ==
    [ f \in DOMAIN doc |-> IF f \in DOMAIN upd /\ f # "status" THEN upd[f] ELSE doc[f] ]

\* update: { $set: updateData } applied to a document
ApplyUpdateData(doc, upd) ==
    [ f \in DOMAIN doc |-> IF f \in DOMAIN upd THEN upd[f] ELSE doc[f] ]

MemberCacheKey(doc) == << doc.guildId, doc.inviteeId >>

Min(S) == CHOOSE x \in S : \A y \in S : x <= y
Max(S) == CHOOSE x \in S : \A y \in S : x >= y

\* the _id of a new TrackedJoin: an ObjectId no document has and no running
\* validation holds
NewTrackedJoinId ==
    1 + Max({0} \cup Ids \cup UNION { candidates[r] \cup DOMAIN bulkOps[r] : r \in Runs })

\* ------------------------------------------------------------------ Init
Init ==
    /\ now = 0
    /\ stripsUndefined \in BOOLEAN
    /\ trackedJoins = << >>
    /\ inserting = EmptyBag
    /\ events = 0
    /\ lastOp = NoOp
    /\ pc = [ r \in Runs |-> "idle" ]
    /\ validationCutoffDate = [ r \in Runs |-> 0 ]
    /\ validationTime = [ r \in Runs |-> 0 ]
    /\ candidates = [ r \in Runs |-> {} ]
    /\ todo = [ r \in Runs |-> {} ]
    /\ guildMemberPresenceCache = [ r \in Runs |-> << >> ]
    /\ bulkOps = [ r \in Runs |-> << >> ]
    /\ bulkResult = [ r \in Runs |-> NoBulkResult ]
    /\ liveInvites = [ g \in Guilds |-> << >> ]
    /\ permissions = [ g \in Guilds |-> "granted" ]
    /\ inviteUsesCache = << >>
    /\ userInvites = << >>
    /\ staleCleanup = {}
    /\ joinCall = NoJoinCall
    /\ otherJoinCall = NoJoinCall
    /\ clientGuilds = DOMAIN liveInvites
    /\ NoCommands

\* a handler or timer callback is entered
Event == events < MaxEvents /\ events' = events + 1

\* ----------------------------------------------------------------- clock
Advance ==
    /\ now < MaxTime
    /\ now' = now + 1
    /\ lastOp' = NoOp
    /\ UNCHANGED << events, stripsUndefined, otherJoinCall, clientGuilds, commandVars, storeVars, runVars,
                    platformVars, inviteVars, joinCall >>

\* ------------------------------------ join: _createOrUpdatePendingJoin
\* findOneAndUpdate matched a document: the update is atomic on it
RecordJoinUpdate(guildId, inviteeId, att) ==
    /\ Event
    /\ \E id \in Ids :
        /\ UpsertFilter(trackedJoins[id], guildId, inviteeId)
        /\ trackedJoins' = [ trackedJoins EXCEPT ![id] =
              UpsertSet(@, att.inviterId, att.inviteCode, now, stripsUndefined) ]
        /\ lastOp' = [ op |-> "join", id |-> id ]
    /\ UNCHANGED << now, stripsUndefined, otherJoinCall, clientGuilds, commandVars, inserting, runVars,
                    platformVars, inviteVars >>

\* findOneAndUpdate matched nothing: the upsert goes on to insert
RecordJoinNoMatch(guildId, inviteeId, att) ==
    /\ Event
    /\ \A id \in Ids : ~UpsertFilter(trackedJoins[id], guildId, inviteeId)
    /\ inserting' = inserting (+) SetToBag({
          NewTrackedJoin(guildId, inviteeId, att.inviterId, att.inviteCode, now) })
    /\ lastOp' = NoOp
    /\ UNCHANGED << now, stripsUndefined, otherJoinCall, clientGuilds, commandVars, trackedJoins, runVars,
                    platformVars, inviteVars >>

\* the insert half of an upsert that matched nothing
UpsertInsert(doc) ==
    /\ BagIn(doc, inserting)
    /\ LET id == NewTrackedJoinId
       IN /\ trackedJoins' = (id :> doc) @@ trackedJoins
          /\ lastOp' = [ op |-> "join", id |-> id ]
    /\ inserting' = inserting (-) SetToBag({doc})
    /\ UNCHANGED << events, now, stripsUndefined, otherJoinCall, clientGuilds, commandVars, runVars,
                    platformVars, inviteVars >>

\* the leave handler with updateOne in place of updateMany
MarkJoinsAsLeftEarly_UpdateOne(guildId, userId) ==
    /\ events < MaxEvents /\ events' = events + 1
    /\ LET matched == { id \in Ids : (trackedJoins[id].guildId = guildId /\ trackedJoins[id].inviteeId = userId
                                    /\ trackedJoins[id].status = "pending") }
       IN \E one \in (IF matched = {} THEN { {} } ELSE { {m} : m \in matched }) :
          /\ trackedJoins' = [ id \in Ids |->
                 IF id \in one
                 THEN [ trackedJoins[id] EXCEPT !.status = "left_early",
                                                !.leaveTimestamp = {now} ]
                 ELSE trackedJoins[id] ]
          /\ lastOp' = [ op |-> "leave", guildId |-> guildId, userId |-> userId,
                         modifiedCount |-> Cardinality(one) ]
    /\ UNCHANGED << now, stripsUndefined, otherJoinCall, clientGuilds, commandVars, inserting, runVars,
                    platformVars, inviteVars, joinCall >>

\* ------------------------------------------ leave: _markJoinsAsLeftEarly
MarkJoinsAsLeftEarly(guildId, userId) ==
    /\ Event
    /\ LET matched == { id \in Ids : LeaveFilter(trackedJoins[id], guildId, userId) }
       IN /\ trackedJoins' = [ id \in Ids |->
                 IF id \in matched THEN LeaveSet(trackedJoins[id], now)
                                   ELSE trackedJoins[id] ]
          /\ lastOp' = [ op |-> "leave", guildId |-> guildId, userId |-> userId,
                         modifiedCount |-> Cardinality(matched) ]
    /\ UNCHANGED << now, stripsUndefined, otherJoinCall, clientGuilds, commandVars, inserting, runVars,
                    platformVars, inviteVars, joinCall >>

\* the store rejects the updateMany: caught and logged
MarkJoinsAsLeftEarlyFails(guildId, userId) ==
    /\ Event
    /\ lastOp' = [ op |-> "leave_error", guildId |-> guildId, userId |-> userId ]
    /\ UNCHANGED << now, stripsUndefined, otherJoinCall, clientGuilds, commandVars, storeVars, runVars,
                    platformVars, inviteVars, joinCall >>

\* ------------------------------------------------ validatePendingJoins
\* a timer fires: cutoff and batch time are taken, the find is issued
ValidateEnter(r) ==
    /\ pc[r] = "idle"
    /\ pc' = [ pc EXCEPT ![r] = "find" ]
    /\ validationCutoffDate' = [ validationCutoffDate EXCEPT ![r] = ValidationCutoff(now) ]
    /\ validationTime' = [ validationTime EXCEPT ![r] = now ]
    /\ candidates' = [ candidates EXCEPT ![r] = {} ]
    /\ todo' = [ todo EXCEPT ![r] = {} ]
    /\ guildMemberPresenceCache' = [ guildMemberPresenceCache EXCEPT ![r] = << >> ]
    /\ bulkOps' = [ bulkOps EXCEPT ![r] = << >> ]
    /\ bulkResult' = [ bulkResult EXCEPT ![r] = NoBulkResult ]
    /\ lastOp' = NoOp
    /\ UNCHANGED << now, stripsUndefined, otherJoinCall, clientGuilds, commandVars, storeVars,
                    platformVars, inviteVars, joinCall >>

\* a run counted among the events of a behaviour
ValidateStart(r) == Event /\ ValidateEnter(r)

\* the tick of setInterval: it comes back for as long as the process lives
ValidateTick(r) == ValidateEnter(r) /\ UNCHANGED events

\* the store answers the find
ValidateFind(r) ==
    /\ pc[r] = "find"
    /\ LET found == { id \in Ids : CandidateFilter(trackedJoins[id], validationCutoffDate[r]) }
       IN /\ candidates' = [ candidates EXCEPT ![r] = found ]
          /\ todo' = [ todo EXCEPT ![r] = found ]
          /\ pc' = [ pc EXCEPT ![r] = IF found = {} THEN "finally" ELSE "loop" ]
    /\ lastOp' = NoOp
    /\ UNCHANGED << events, now, stripsUndefined, otherJoinCall, clientGuilds, commandVars, storeVars, validationCutoffDate, validationTime,
                    guildMemberPresenceCache, bulkOps, bulkResult,
                    platformVars, inviteVars, joinCall >>

\* the find throws: caught by the outer catch
ValidateFindFails(r) ==
    /\ pc[r] = "find"
    /\ pc' = [ pc EXCEPT ![r] = "finally" ]
    /\ bulkResult' = [ bulkResult EXCEPT ![r] = [ error |-> "find", modifiedCount |-> 0 ] ]
    /\ lastOp' = NoOp
    /\ UNCHANGED << events, now, stripsUndefined, otherJoinCall, clientGuilds, commandVars, storeVars, validationCutoffDate, validationTime,
                    candidates, todo, guildMemberPresenceCache, bulkOps,
                    platformVars, inviteVars, joinCall >>

\* what guild.members.fetch can answer: the member, DiscordAPIError 10007,
\* DiscordAPIError 10013, or any other error
FetchAnswers == { "member", "unknown_member", "unknown_user", "other_error" }

\* every fetch error taken for an absent member
CheckMemberPresence_ErrorIsLeft(cache, key, guildKnown, fetched) ==
    IF key \in DOMAIN cache THEN cache[key]
    ELSE IF ~guildKnown THEN "error_skip"
    ELSE IF fetched = "member" THEN "present"
    ELSE "left"

\* a presence check that asks for the member without looking for the guild
CheckMemberPresence_SkipsGuildCheck(cache, key, guildKnown, fetched) ==
    IF key \in DOMAIN cache THEN cache[key]
    ELSE IF fetched = "member" THEN "present"
    ELSE IF fetched \in { "unknown_member", "unknown_user" } THEN "left"
    ELSE "error_skip"

\* _checkMemberPresence: guildKnown is client.guilds.cache.get(join.guildId),
\* fetched the answer of guild.members.fetch
CheckMemberPresence(cache, key, guildKnown, fetched) ==
    IF key \in DOMAIN cache THEN cache[key]
    ELSE IF ~guildKnown THEN "error_skip"
    ELSE IF fetched = "member" THEN "present"
    ELSE IF fetched \in { "unknown_member", "unknown_user" } THEN "left"
    ELSE "error_skip"

\* where _checkMemberPresence took its answer from: the run's cache, the
\* missing guild, or guild.members.fetch
PresenceLookup(cache, key, guildKnown) ==
    IF key \in DOMAIN cache THEN "cache_hit"
    ELSE IF ~guildKnown THEN "guild_unknown"
    ELSE "fetch"

\* the body of the candidate loop after the presence check
PushUpdate(ops, id, memberStatus, eventTime) ==
    IF memberStatus = "error_skip" THEN ops
    ELSE LET updateOp == ValidationUpdateData(memberStatus, eventTime)
         IN IF updateOp = NoUpdate THEN ops ELSE (id :> updateOp) @@ ops

\* one iteration of the candidate loop; the lean documents of the find are
\* read through the store, their guildId and inviteeId never change
ValidateCandidate(r, guildKnown, fetched) ==
    /\ pc[r] = "loop"
    /\ todo[r] # {}
    /\ LET id == Min(todo[r])
           key == MemberCacheKey(trackedJoins[id])
           status == CheckMemberPresence(guildMemberPresenceCache[r], key, guildKnown, fetched)
       IN /\ guildMemberPresenceCache' = [ guildMemberPresenceCache EXCEPT ![r] = (key :> status) @@ @ ]
          /\ bulkOps' = [ bulkOps EXCEPT ![r] = PushUpdate(@, id, status, validationTime[r]) ]
          /\ todo' = [ todo EXCEPT ![r] = @ \ {id} ]
          /\ pc' = [ pc EXCEPT ![r] = IF todo[r] = {id} THEN "write" ELSE "loop" ]
          /\ lastOp' = [ op |-> "presence", id |-> id,
                         lookup |-> PresenceLookup(guildMemberPresenceCache[r], key, guildKnown) ]
    /\ UNCHANGED << events, now, stripsUndefined, otherJoinCall, clientGuilds, commandVars, storeVars, validationCutoffDate, validationTime,
                    candidates, bulkResult,
                    platformVars, inviteVars, joinCall >>

\* bulkWrite of the prepared updateOne operations
BulkWrite(docs, ops) ==
    [ id \in DOMAIN docs |->
        IF id \in DOMAIN ops /\ ValidationUpdateFilter(docs[id])
        THEN ApplyUpdateData(docs[id], ops[id])
        ELSE docs[id] ]

ValidateWrite(r) ==
    /\ pc[r] = "write"
    /\ DOMAIN bulkOps[r] # {}
    /\ trackedJoins' = BulkWrite(trackedJoins, bulkOps[r])
    /\ bulkResult' = [ bulkResult EXCEPT ![r] = [ error |-> "none", modifiedCount |->
          Cardinality({ id \in Ids : trackedJoins'[id] # trackedJoins[id] }) ] ]
    /\ pc' = [ pc EXCEPT ![r] = "finally" ]
    /\ lastOp' = NoOp
    /\ UNCHANGED << events, now, stripsUndefined, otherJoinCall, clientGuilds, commandVars, inserting,
                    validationCutoffDate, validationTime, candidates, todo,
                    guildMemberPresenceCache, bulkOps,
                    platformVars, inviteVars, joinCall >>

\* the bulkWrite throws: caught and logged, nothing is written
ValidateWriteFails(r) ==
    /\ pc[r] = "write"
    /\ DOMAIN bulkOps[r] # {}
    /\ bulkResult' = [ bulkResult EXCEPT ![r] = [ error |-> "bulkWrite", modifiedCount |-> 0 ] ]
    /\ pc' = [ pc EXCEPT ![r] = "finally" ]
    /\ lastOp' = NoOp
    /\ UNCHANGED << events, now, stripsUndefined, otherJoinCall, clientGuilds, commandVars, storeVars, validationCutoffDate, validationTime,
                    candidates, todo, guildMemberPresenceCache, bulkOps,
                    platformVars, inviteVars, joinCall >>

\* bulkOps is empty: nothing is written
ValidateNoWrite(r) ==
    /\ pc[r] = "write"
    /\ DOMAIN bulkOps[r] = {}
    /\ pc' = [ pc EXCEPT ![r] = "finally" ]
    /\ lastOp' = NoOp
    /\ UNCHANGED << events, now, stripsUndefined, otherJoinCall, clientGuilds, commandVars, storeVars, validationCutoffDate, validationTime,
                    candidates, todo, guildMemberPresenceCache, bulkOps, bulkResult,
                    platformVars, inviteVars, joinCall >>

\* finally: the presence cache is cleared and the run ends
ValidateFinally(r) ==
    /\ pc[r] = "finally"
    /\ pc' = [ pc EXCEPT ![r] = "idle" ]
    /\ guildMemberPresenceCache' = [ guildMemberPresenceCache EXCEPT ![r] = << >> ]
    /\ validationCutoffDate' = [ validationCutoffDate EXCEPT ![r] = 0 ]
    /\ validationTime' = [ validationTime EXCEPT ![r] = 0 ]
    /\ candidates' = [ candidates EXCEPT ![r] = {} ]
    /\ todo' = [ todo EXCEPT ![r] = {} ]
    /\ bulkOps' = [ bulkOps EXCEPT ![r] = << >> ]
    /\ bulkResult' = [ bulkResult EXCEPT ![r] = NoBulkResult ]
    /\ lastOp' = NoOp
    /\ UNCHANGED << events, now, stripsUndefined, otherJoinCall, clientGuilds, commandVars, storeVars,
                    platformVars, inviteVars, joinCall >>

\* ------------------------------------------------------------------ Next
\* the store and the clock
Lifecycle ==
    \/ Advance
    \/ \E g \in Guilds, u \in Users, att \in Attributions : (RecordJoinUpdate(g, u, att) /\ UNCHANGED joinCall)
    \/ \E g \in Guilds, u \in Users, att \in Attributions : (RecordJoinNoMatch(g, u, att) /\ UNCHANGED joinCall)
    \/ \E doc \in DOMAIN inserting : (UpsertInsert(doc) /\ UNCHANGED joinCall)
    \/ \E g \in Guilds, u \in Users : MarkJoinsAsLeftEarly(g, u)
    \/ \E g \in Guilds, u \in Users : MarkJoinsAsLeftEarlyFails(g, u)

Validate(r) ==
    \/ ValidateStart(r)
    \/ ValidateFind(r)
    \/ ValidateFindFails(r)
    \/ \E k \in BOOLEAN, f \in FetchAnswers : ValidateCandidate(r, k, f)
    \/ ValidateWrite(r)
    \/ ValidateNoWrite(r)
    \/ ValidateWriteFails(r)
    \/ ValidateFinally(r)

\* one validation run at a time
Next == Lifecycle \/ Validate("interval")

Spec == Init /\ [][Next]_vars

\* ------------------------------------------------- two runs in succession
\* a run without its finally step, so that its locals stay readable
ValidateBody(r) ==
    \/ ValidateStart(r)
    \/ ValidateFind(r)
    \/ ValidateFindFails(r)
    \/ \E k \in BOOLEAN, f \in FetchAnswers : ValidateCandidate(r, k, f)
    \/ ValidateWrite(r)
    \/ ValidateWriteFails(r)
    \/ ValidateNoWrite(r)

\* joins happen before the first run
JoinsBefore ==
    /\ pc["initial"] = "idle"
    /\ \/ \E g \in Guilds, u \in Users, att \in Attributions : (RecordJoinUpdate(g, u, att) /\ UNCHANGED joinCall)
       \/ \E g \in Guilds, u \in Users, att \in Attributions : (RecordJoinNoMatch(g, u, att) /\ UNCHANGED joinCall)
       \/ \E doc \in DOMAIN inserting : (UpsertInsert(doc) /\ UNCHANGED joinCall)

\* the post-startup run, then the first interval run once the former has
\* ended; leaves and the clock go on throughout, no join comes in after the
\* first run has started
NextTwice ==
    \/ JoinsBefore
    \/ Advance
    \/ \E g \in Guilds, u \in Users : MarkJoinsAsLeftEarly(g, u)
    \/ \E g \in Guilds, u \in Users : MarkJoinsAsLeftEarlyFails(g, u)
    \/ ValidateBody("initial")
    \/ (pc["initial"] = "finally" /\ ValidateBody("interval"))

SpecTwice == Init /\ [][NextTwice]_vars

\* ====================================== invite cache and attribution engine
\* invite codes on the platform: cA and cB are the codes of UserInvite
\* records, cX is an invite the bot does not track
Codes == {"cA", "cB", "cX"}

\* uses of a live invite: invite.uses ?? 0
Uses(invite) == IF invite.uses = {} THEN 0 ELSE CHOOSE n \in invite.uses : TRUE

\* _hasRequiredPermissions: guild.members.me is there and has Manage Guild
HasRequiredPermissions(perm) == perm = "granted"

\* the usesMap cacheGuildInvites builds from a fetched invite collection
UsesMap(invites) == [ code \in DOMAIN invites |-> Uses(invites[code]) ]

\* inviteUsesCache.set(guild.id, usesMap) merging into the previous mapping
CacheSet_Merge(cache, guildId, usesMap) ==
    [ g \in DOMAIN cache \cup {guildId} |->
        IF g # guildId THEN cache[g]
        ELSE IF g \in DOMAIN cache THEN usesMap @@ cache[g] ELSE usesMap ]

\* inviteUsesCache.set(guild.id, usesMap)
CacheSet(cache, guildId, usesMap) ==
    [ g \in DOMAIN cache \cup {guildId} |-> IF g = guildId THEN usesMap ELSE cache[g] ]

\* a delete that leaves the entry in place
CacheDelete_Keeps(cache, guildId) == cache

\* inviteUsesCache.delete(guild.id)
CacheDelete(cache, guildId) == [ g \in DOMAIN cache \ {guildId} |-> cache[g] ]

\* cacheGuildInvites returns true: permission held and the fetch answered
RefreshSucceeds(perm, fetchOk) == HasRequiredPermissions(perm) /\ fetchOk

\* the cache after cacheGuildInvites(guild); invites is the platform's
\* answer to guild.invites.fetch()
CacheGuildInvitesResult(cache, guildId, perm, fetchOk, invites) ==
    IF RefreshSucceeds(perm, fetchOk)
    THEN CacheSet(cache, guildId, UsesMap(invites))
    ELSE CacheDelete(cache, guildId)

\* a fetch issued whatever the permission check said
InviteFetches_Unchecked(perm) == 1

\* guild.invites.fetch() calls of cacheGuildInvites and of
\* _fetchGuildInvitesSafe: one after a passed permission check, else none
InviteFetches(perm) == IF HasRequiredPermissions(perm) THEN 1 ELSE 0

\* the live fetch answering without the permission
FetchGuildInvitesSafe_Unchecked(perm, fetchOk, invites) ==
    IF fetchOk THEN {invites} ELSE {}

\* _fetchGuildInvitesSafe: the invite collection, or null
FetchGuildInvitesSafe(perm, fetchOk, invites) ==
    IF HasRequiredPermissions(perm) /\ fetchOk THEN {invites} ELSE {}

\* an ensure that refreshes even when an entry is cached
EnsureInviteCacheResult_AlwaysRefreshes(cache, guildId, perm, fetchOk, invites) ==
    LET after == CacheGuildInvitesResult(cache, guildId, perm, fetchOk, invites)
    IN [ cache |-> after,
         returned |-> IF guildId \in DOMAIN after THEN { after[guildId] } ELSE {},
         refreshes |-> 1,
         fetches |-> IF HasRequiredPermissions(perm) THEN 1 ELSE 0 ]

\* _ensureInviteCache: the cache afterwards, the mapping returned ({} for
\* null), and how often it called cacheGuildInvites and guild.invites.fetch
EnsureInviteCacheResult(cache, guildId, perm, fetchOk, invites) ==
    IF guildId \in DOMAIN cache
    THEN [ cache |-> cache, returned |-> { cache[guildId] }, refreshes |-> 0, fetches |-> 0 ]
    ELSE LET after == CacheGuildInvitesResult(cache, guildId, perm, fetchOk, invites)
         IN [ cache |-> after,
              returned |-> IF RefreshSucceeds(perm, fetchOk) /\ guildId \in DOMAIN after
                           THEN { after[guildId] } ELSE {},
              refreshes |-> 1,
              fetches |-> IF HasRequiredPermissions(perm) THEN 1 ELSE 0 ]

\* ------------------------------------------------- attribution engine
\* a delete that leaves the code in the mapping
WithoutCode_Keeps(usesMap, code) == usesMap

\* a mapping without one code: cachedUses.delete(code)
WithoutCode(usesMap, code) == [ c \in DOMAIN usesMap \ {code} |-> usesMap[c] ]

\* the usage check taking an equal count for an increase
UsageCheck_Geq(currentUses, cachedUses, code) ==
    IF code \in DOMAIN cachedUses
    THEN IF currentUses >= cachedUses[code]
         THEN [ usageIncreased |-> TRUE, delta |-> currentUses - cachedUses[code] ]
         ELSE [ usageIncreased |-> FALSE, delta |-> 0 ]
    ELSE IF currentUses > 0
         THEN [ usageIncreased |-> TRUE, delta |-> currentUses ]
         ELSE [ usageIncreased |-> FALSE, delta |-> 0 ]

\* the usage check reporting the current count as the delta
UsageCheck_DeltaIsCurrent(currentUses, cachedUses, code) ==
    IF code \in DOMAIN cachedUses
    THEN IF currentUses > cachedUses[code]
         THEN [ usageIncreased |-> TRUE, delta |-> currentUses ]
         ELSE [ usageIncreased |-> FALSE, delta |-> 0 ]
    ELSE IF currentUses > 0
         THEN [ usageIncreased |-> TRUE, delta |-> currentUses ]
         ELSE [ usageIncreased |-> FALSE, delta |-> 0 ]

\* the usage check without the fallback for codes the cache does not have
UsageCheck_NoFallback(currentUses, cachedUses, code) ==
    IF code \in DOMAIN cachedUses /\ currentUses > cachedUses[code]
    THEN [ usageIncreased |-> TRUE, delta |-> currentUses - cachedUses[code] ]
    ELSE [ usageIncreased |-> FALSE, delta |-> 0 ]

\* the fallback attributing a code without cached count even at zero uses
UsageCheck_FallbackAtZero(currentUses, cachedUses, code) ==
    IF code \in DOMAIN cachedUses
    THEN IF currentUses > cachedUses[code]
         THEN [ usageIncreased |-> TRUE, delta |-> currentUses - cachedUses[code] ]
         ELSE [ usageIncreased |-> FALSE, delta |-> 0 ]
    ELSE [ usageIncreased |-> TRUE, delta |-> currentUses ]

\* _checkSingleInvite, invite exists: usage against the cached count, or
\* against zero when the cache has no count for the code
UsageCheck(currentUses, cachedUses, code) ==
    IF code \in DOMAIN cachedUses
    THEN IF currentUses > cachedUses[code]
         THEN [ usageIncreased |-> TRUE, delta |-> currentUses - cachedUses[code] ]
         ELSE [ usageIncreased |-> FALSE, delta |-> 0 ]
    ELSE IF currentUses > 0
         THEN [ usageIncreased |-> TRUE, delta |-> currentUses ]
         ELSE [ usageIncreased |-> FALSE, delta |-> 0 ]

\* a staleness test that looks at the cache instead of the live invites
IsStale_ByCache(userInvite, currentInvites, cachedUses) ==
    userInvite.inviteCode \notin DOMAIN cachedUses

\* _checkSingleInvite: the tracked code is not among the fetched invites
IsStale(userInvite, currentInvites, cachedUses) ==
    userInvite.inviteCode \notin DOMAIN currentInvites

\* _checkSingleInvite without its side effect on cachedUses
CheckSingleInvite(userInvite, currentInvites, cachedUses) ==
    IF IsStale(userInvite, currentInvites, cachedUses)
    THEN [ isStale |-> TRUE, usageIncreased |-> FALSE, delta |-> 0,
           inviterId |-> userInvite.userId, inviteCode |-> userInvite.inviteCode ]
    ELSE LET check == UsageCheck(Uses(currentInvites[userInvite.inviteCode]),
                                 cachedUses, userInvite.inviteCode)
         IN [ isStale |-> FALSE, usageIncreased |-> check.usageIncreased,
              delta |-> check.delta,
              inviterId |-> userInvite.userId, inviteCode |-> userInvite.inviteCode ]

\* the loop of _findUsedInviteAndStale over the tracked records not yet
\* visited, in the order of the find (ascending _id)
RECURSIVE FindLoop(_, _, _, _, _, _)
FindLoop(ids, tracked, currentInvites, cachedUses, stale, potentials) ==
    IF ids = {}
    THEN [ cachedUses |-> cachedUses, staleInviteIds |-> stale,
           potentialAttributions |-> potentials ]
    ELSE LET id == Min(ids)
             checkResult == CheckSingleInvite(tracked[id], currentInvites, cachedUses)
         IN IF checkResult.isStale
            THEN FindLoop(ids \ {id}, tracked, currentInvites,
                          WithoutCode(cachedUses, tracked[id].inviteCode),
                          Append(stale, id), potentials)
            ELSE IF checkResult.usageIncreased
            THEN FindLoop(ids \ {id}, tracked, currentInvites, cachedUses, stale,
                          Append(potentials, [ inviterId |-> checkResult.inviterId,
                                               inviteCode |-> checkResult.inviteCode,
                                               delta |-> checkResult.delta ]))
            ELSE FindLoop(ids \ {id}, tracked, currentInvites, cachedUses, stale, potentials)

\* the tie-break taking the last increasing record
PickAttribution_Last(potentials) ==
    IF Len(potentials) = 0 THEN {} ELSE { potentials[Len(potentials)] }

\* the attribution logic of _findUsedInviteAndStale: the only increasing
\* record, the first of several, or null
PickAttribution(potentials) ==
    IF Len(potentials) = 0 THEN {} ELSE { potentials[1] }

\* the engine taking a failed fetch for an empty invite collection
FindUsedInviteAndStale_ComparesNull(currentInvites, cachedUses, tracked) ==
    LET invites == IF currentInvites = {} THEN << >> ELSE CHOOSE i \in currentInvites : TRUE
        loop == FindLoop(DOMAIN tracked, tracked, invites, cachedUses, << >>, << >>)
    IN [ attribution |-> PickAttribution(loop.potentialAttributions),
         staleInviteIds |-> loop.staleInviteIds,
         potentialAttributions |-> loop.potentialAttributions,
         cachedUses |-> loop.cachedUses ]

\* _findUsedInviteAndStale; currentInvites is {} when the fetch failed
FindUsedInviteAndStale(currentInvites, cachedUses, tracked) ==
    IF currentInvites = {}
    THEN [ attribution |-> {}, staleInviteIds |-> << >>,
           potentialAttributions |-> << >>, cachedUses |-> cachedUses ]
    ELSE LET invites == CHOOSE i \in currentInvites : TRUE
             loop == FindLoop(DOMAIN tracked, tracked, invites, cachedUses, << >>, << >>)
         IN [ attribution |-> PickAttribution(loop.potentialAttributions),
              staleInviteIds |-> loop.staleInviteIds,
              potentialAttributions |-> loop.potentialAttributions,
              cachedUses |-> loop.cachedUses ]

\* UserInvite.find({ guildId })
TrackedUserInvites(guildId) ==
    [ id \in { i \in DOMAIN userInvites : userInvites[i].guildId = guildId } |-> userInvites[id] ]

\* --------------------------------------------------------- the platform
\* a member joins through an invite: its use count goes up
UseInvite(g, code) ==
    /\ Event
    /\ code \in DOMAIN liveInvites[g]
    /\ liveInvites' = [ liveInvites EXCEPT ![g][code] =
                          [ uses |-> { Uses(liveInvites[g][code]) + 1 } ] ]
    /\ lastOp' = NoOp
    /\ UNCHANGED << now, stripsUndefined, otherJoinCall, clientGuilds, commandVars, storeVars, runVars, permissions, inviteVars, joinCall >>

\* an invite is created; the platform reports its uses as 0 or not at all
CreateInvite(g, code, uses) ==
    /\ Event
    /\ code \notin DOMAIN liveInvites[g]
    /\ liveInvites' = [ liveInvites EXCEPT ![g] = (code :> [ uses |-> uses ]) @@ @ ]
    /\ lastOp' = NoOp
    /\ UNCHANGED << now, stripsUndefined, otherJoinCall, clientGuilds, commandVars, storeVars, runVars, permissions, inviteVars, joinCall >>

\* an invite is deleted or expires
DeleteInvite(g, code) ==
    /\ Event
    /\ code \in DOMAIN liveInvites[g]
    /\ liveInvites' = [ liveInvites EXCEPT ![g] = [ c \in DOMAIN @ \ {code} |-> @[c] ] ]
    /\ lastOp' = NoOp
    /\ UNCHANGED << now, stripsUndefined, otherJoinCall, clientGuilds, commandVars, storeVars, runVars, permissions, inviteVars, joinCall >>

\* what _hasRequiredPermissions can find: Manage Guild held, Manage Guild
\* missing, guild.members.me unavailable
PermissionStates == { "granted", "denied", "unavailable" }

\* the bot's role in a guild changes
SetPermissions(g, perm) ==
    /\ Event
    /\ perm # permissions[g]
    /\ permissions' = [ permissions EXCEPT ![g] = perm ]
    /\ lastOp' = NoOp
    /\ UNCHANGED << now, stripsUndefined, otherJoinCall, clientGuilds, commandVars, storeVars, runVars, liveInvites, inviteVars, joinCall >>

\* the entry of guildId is about to be replaced or deleted: a handler
\* that got it from _ensureInviteCache and has not run the engine yet keeps
\* the old Map, which is no longer the cache's
Detach(call, guildId, cache) ==
    IF call.pc = "tracked" /\ call.guildId = guildId /\ call.cachedUses = {}
         /\ guildId \in DOMAIN cache
    THEN [ call EXCEPT !.cachedUses = { cache[guildId] } ]
    ELSE call

\* the Map step 5 gave the handler: the entry of the cache, or the Map that
\* was the entry then
HeldCachedUses(call, cache) ==
    IF call.cachedUses = {} THEN cache[call.guildId]
    ELSE CHOOSE m \in call.cachedUses : TRUE

\* ------------------------------------------------------ the invite cache
\* cacheGuildInvites(guild) as GuildCreate and ClientReady call it
CacheGuildInvites(g, fetchOk) ==
    /\ inviteUsesCache' = CacheGuildInvitesResult(inviteUsesCache, g, permissions[g],
                                                  fetchOk, liveInvites[g])
    /\ lastOp' = [ op |-> "refresh", guildId |-> g,
                   returned |-> RefreshSucceeds(permissions[g], fetchOk),
                   fetches |-> InviteFetches(permissions[g]) ]
    /\ joinCall' = Detach(joinCall, g, inviteUsesCache)
    /\ otherJoinCall' = Detach(otherJoinCall, g, inviteUsesCache)
    /\ UNCHANGED << now, stripsUndefined, clientGuilds, commandVars, events, storeVars, runVars, platformVars,
                    userInvites, staleCleanup >>

\* _ensureInviteCache(guild) on its own
EnsureInviteCache(g, fetchOk) ==
    /\ LET res == EnsureInviteCacheResult(inviteUsesCache, g, permissions[g],
                                          fetchOk, liveInvites[g])
       IN /\ inviteUsesCache' = res.cache
          /\ lastOp' = [ op |-> "ensure", guildId |-> g, returned |-> res.returned,
                         refreshes |-> res.refreshes, fetches |-> res.fetches ]
    /\ UNCHANGED << now, stripsUndefined, otherJoinCall, clientGuilds, commandVars, events, storeVars, runVars, platformVars,
                    userInvites, staleCleanup, joinCall >>

\* ------------------------------------------ GuildMemberAdd: the handler
\* steps 1 and 2: usable member data and the permission check
JoinStart(g, u, usable) ==
    /\ joinCall.pc = "idle"
    /\ joinCall' = IF usable /\ HasRequiredPermissions(permissions[g])
                   THEN [ NoJoinCall EXCEPT !.pc = "fetch", !.guildId = g, !.userId = u ]
                   ELSE NoJoinCall
    /\ lastOp' = IF ~usable
                 THEN [ op |-> "join_return", guildId |-> g, step |-> "member" ]
                 ELSE IF ~HasRequiredPermissions(permissions[g])
                 THEN [ op |-> "join_return", guildId |-> g, step |-> "permissions" ]
                 ELSE NoOp
    /\ UNCHANGED << now, stripsUndefined, otherJoinCall, clientGuilds, commandVars, events, storeVars, runVars, platformVars, inviteVars >>

\* step 4 and the start of step 5: the delay is over, the current invites
\* are fetched, then _ensureInviteCache finds the entry or goes to refresh
JoinFetch(fetchOk) ==
    /\ joinCall.pc = "fetch"
    /\ LET g == joinCall.guildId
           current == FetchGuildInvitesSafe(permissions[g], fetchOk, liveInvites[g])
       IN IF g \in DOMAIN inviteUsesCache
          THEN /\ joinCall' = [ joinCall EXCEPT !.pc = "tracked", !.currentInvites = current ]
               /\ lastOp' = [ op |-> "ensure", guildId |-> g,
                              returned |-> { inviteUsesCache[g] },
                              refreshes |-> 0, fetches |-> 0,
                              liveFetches |-> InviteFetches(permissions[g]) ]
          ELSE IF HasRequiredPermissions(permissions[g])
          THEN /\ joinCall' = [ joinCall EXCEPT !.pc = "ensure", !.currentInvites = current ]
               /\ lastOp' = [ op |-> "ensure_refresh", guildId |-> g,
                              refreshes |-> 1, fetches |-> InviteFetches(permissions[g]),
                              liveFetches |-> InviteFetches(permissions[g]) ]
          ELSE /\ joinCall' = NoJoinCall
               /\ lastOp' = [ op |-> "ensure", guildId |-> g, returned |-> {},
                              refreshes |-> 1, fetches |-> InviteFetches(permissions[g]),
                              liveFetches |-> InviteFetches(permissions[g]) ]
    /\ UNCHANGED << now, stripsUndefined, otherJoinCall, clientGuilds, commandVars, events, storeVars, runVars, platformVars, inviteVars >>

\* step 5: the refresh _ensureInviteCache is waiting for completes
JoinEnsure(fetchOk) ==
    /\ joinCall.pc = "ensure"
    /\ LET g == joinCall.guildId
           ok == RefreshSucceeds(permissions[g], fetchOk)
       IN /\ inviteUsesCache' = CacheGuildInvitesResult(inviteUsesCache, g, permissions[g],
                                                        fetchOk, liveInvites[g])
          /\ joinCall' = IF ok THEN [ joinCall EXCEPT !.pc = "tracked" ] ELSE NoJoinCall
          /\ lastOp' = [ op |-> "ensure", guildId |-> g,
                         returned |-> IF ok THEN { inviteUsesCache'[g] } ELSE {},
                         refreshes |-> 1, fetches |-> 1, liveFetches |-> 0 ]
          /\ otherJoinCall' = Detach(otherJoinCall, g, inviteUsesCache)
    /\ UNCHANGED << now, stripsUndefined, clientGuilds, commandVars, events, storeVars, runVars, platformVars,
                    userInvites, staleCleanup >>

\* the handler never calling the cleanup
StaleCleanupCalls_Never(pending, staleInviteIds, guildId) == pending

\* step 8: _cleanupStaleInvites is called without await when the engine
\* reported stale records; its deleteMany is then under way
StaleCleanupCalls(pending, staleInviteIds, guildId) ==
    IF Len(staleInviteIds) > 0
    THEN pending \cup { [ ids |-> staleInviteIds, guildId |-> guildId ] }
    ELSE pending

\* the error reaching the handler's outer catch, which ends the handler
AfterStoreError_Escapes(call) == NoJoinCall

\* a store call of the handler has thrown: the error is caught where it was
\* raised (_getTrackedUserInvites returns null, _createOrUpdatePendingJoin
\* logs it) and the handler goes to its cache refresh
AfterStoreError(call) == [ call EXCEPT !.pc = "refresh" ]

\* steps 6 to 8: the tracked invites arrive, the engine runs on the Map of
\* step 5 (deleting stale codes from it, which shows in the cache while the
\* Map is still its entry), the stale records are handed to the cleanup
JoinTracked(dbOk) ==
    /\ joinCall.pc = "tracked"
    /\ joinCall.cachedUses # {} \/ joinCall.guildId \in DOMAIN inviteUsesCache
    /\ LET g == joinCall.guildId
           tracked == TrackedUserInvites(g)
       IN IF ~dbOk
          THEN /\ joinCall' = AfterStoreError([ joinCall EXCEPT !.cachedUses = {} ])
               /\ lastOp' = [ op |-> "join_error", guildId |-> g, step |-> "read" ]
               /\ UNCHANGED << inviteUsesCache, staleCleanup >>
          ELSE IF DOMAIN tracked = {}
          THEN /\ joinCall' = [ joinCall EXCEPT !.pc = "refresh", !.cachedUses = {} ]
               /\ lastOp' = NoOp
               /\ UNCHANGED << inviteUsesCache, staleCleanup >>
          ELSE LET res == FindUsedInviteAndStale(joinCall.currentInvites,
                                                 HeldCachedUses(joinCall, inviteUsesCache), tracked)
               IN /\ inviteUsesCache' = IF joinCall.cachedUses = {}
                                         THEN CacheSet(inviteUsesCache, g, res.cachedUses)
                                         ELSE inviteUsesCache
                  /\ staleCleanup' = StaleCleanupCalls(staleCleanup, res.staleInviteIds, g)
                  /\ joinCall' = [ joinCall EXCEPT
                        !.pc = IF res.attribution # {} THEN "record" ELSE "refresh",
                        !.attribution = res.attribution,
                        !.staleInviteIds = res.staleInviteIds,
                        !.potentialAttributions = res.potentialAttributions,
                        !.cachedUses = {} ]
                  /\ lastOp' = NoOp
    /\ UNCHANGED << now, stripsUndefined, otherJoinCall, clientGuilds, commandVars, events, storeVars, runVars, platformVars, userInvites >>

\* step 9: _createOrUpdatePendingJoin for the attribution
JoinRecord ==
    /\ joinCall.pc = "record"
    /\ LET att == CHOOSE a \in joinCall.attribution : TRUE
       IN \/ /\ RecordJoinUpdate(joinCall.guildId, joinCall.userId, att)
             /\ joinCall' = [ joinCall EXCEPT !.pc = "refresh" ]
          \/ /\ RecordJoinNoMatch(joinCall.guildId, joinCall.userId, att)
             /\ joinCall' = [ joinCall EXCEPT !.pc = "upsert" ]

\* step 9: findOneAndUpdate throws; _createOrUpdatePendingJoin catches and
\* logs, nothing is written and the handler goes on to step 10
JoinRecordFails ==
    /\ joinCall.pc = "record"
    /\ joinCall' = AfterStoreError(joinCall)
    /\ lastOp' = [ op |-> "join_error", guildId |-> joinCall.guildId, step |-> "write" ]
    /\ UNCHANGED << now, stripsUndefined, otherJoinCall, clientGuilds, commandVars, events, storeVars, runVars, platformVars,
                    inviteVars >>

\* step 9: the upsert that matched nothing has inserted
JoinInserted ==
    /\ joinCall.pc = "upsert"
    /\ \E doc \in DOMAIN inserting : UpsertInsert(doc)
    /\ joinCall' = [ joinCall EXCEPT !.pc = "refresh" ]

\* step 10 (and the early exits of step 6): the cache is refreshed
JoinRefresh(fetchOk) ==
    /\ joinCall.pc = "refresh"
    /\ LET g == joinCall.guildId
       IN /\ inviteUsesCache' = CacheGuildInvitesResult(inviteUsesCache, g, permissions[g],
                                                        fetchOk, liveInvites[g])
          /\ lastOp' = [ op |-> "refresh", guildId |-> g,
                         returned |-> RefreshSucceeds(permissions[g], fetchOk),
                         fetches |-> InviteFetches(permissions[g]) ]
          /\ otherJoinCall' = Detach(otherJoinCall, g, inviteUsesCache)
    /\ joinCall' = NoJoinCall
    /\ UNCHANGED << now, stripsUndefined, clientGuilds, commandVars, events, storeVars, runVars, platformVars,
                    userInvites, staleCleanup >>

\* _cleanupStaleInvites: the deleteMany runs, or fails and is logged
CleanupStaleInvites(call, dbOk) ==
    /\ call \in staleCleanup
    /\ staleCleanup' = staleCleanup \ {call}
    /\ userInvites' = IF dbOk
          THEN [ id \in { i \in DOMAIN userInvites :
                            ~(\E k \in 1..Len(call.ids) : call.ids[k] = i
                                  /\ userInvites[i].guildId = call.guildId) }
                   |-> userInvites[id] ]
          ELSE userInvites
    /\ lastOp' = NoOp
    /\ UNCHANGED << now, stripsUndefined, otherJoinCall, clientGuilds, commandVars, events, storeVars, runVars, platformVars,
                    inviteUsesCache, joinCall >>

\* ----------------------------------------------- the invite specifications
\* the invites a guild has when the bot becomes ready
InitialInvites ==
    { << >>,
      [ c \in {"cA"} |-> [ uses |-> {0} ] ],
      [ c \in Codes |-> [ uses |-> IF c = "cX" THEN {} ELSE {0} ] ] }

\* the UserInvite records of g1 when the bot becomes ready
InitialUserInvites ==
    { << >>,
      << [ userId |-> "a", guildId |-> "g1", inviteCode |-> "cA" ] >>,
      << [ userId |-> "a", guildId |-> "g1", inviteCode |-> "cA" ],
         [ userId |-> "b", guildId |-> "g1", inviteCode |-> "cB" ] >>,
      << [ userId |-> "b", guildId |-> "g1", inviteCode |-> "cB" ],
         [ userId |-> "a", guildId |-> "g1", inviteCode |-> "cA" ] >> }

\* ClientReady over the guilds G: the invites of every guild have been
\* cached, or the caching of the guild failed; no TrackedJoin has a
\* timestamp to clear here, so one Mongoose behaviour stands for both
InitInvites(G, tracked) ==
    /\ now = 0
    /\ stripsUndefined = TRUE
    /\ trackedJoins = << >>
    /\ inserting = EmptyBag
    /\ events = 0
    /\ lastOp = NoOp
    /\ pc = [ r \in Runs |-> "idle" ]
    /\ validationCutoffDate = [ r \in Runs |-> 0 ]
    /\ validationTime = [ r \in Runs |-> 0 ]
    /\ candidates = [ r \in Runs |-> {} ]
    /\ todo = [ r \in Runs |-> {} ]
    /\ guildMemberPresenceCache = [ r \in Runs |-> << >> ]
    /\ bulkOps = [ r \in Runs |-> << >> ]
    /\ bulkResult = [ r \in Runs |-> NoBulkResult ]
    /\ liveInvites \in [ G -> InitialInvites ]
    /\ permissions \in [ G -> { "granted", "denied" } ]
    /\ \E fetchOk \in [ G -> BOOLEAN ] :
          inviteUsesCache = [ g \in { c \in G : RefreshSucceeds(permissions[c], fetchOk[c]) }
                                |-> UsesMap(liveInvites[g]) ]
    /\ userInvites \in tracked
    /\ staleCleanup = {}
    /\ joinCall = NoJoinCall
    /\ otherJoinCall = NoJoinCall
    /\ clientGuilds = DOMAIN liveInvites
    /\ NoCommands

\* the platform changing under the bot
Platform(G) ==
    \/ \E g \in G, code \in Codes : UseInvite(g, code)
    \/ \E g \in G, code \in Codes, uses \in { {}, {0} } : CreateInvite(g, code, uses)
    \/ \E g \in G, code \in Codes : DeleteInvite(g, code)
    \/ \E g \in G, perm \in PermissionStates : SetPermissions(g, perm)

\* the cache operations of every community against a changing platform
NextCache ==
    \/ Platform(Communities)
    \/ \E g \in Communities, fetchOk \in BOOLEAN : CacheGuildInvites(g, fetchOk)
    \/ \E g \in Communities, fetchOk \in BOOLEAN : EnsureInviteCache(g, fetchOk)

SpecCache == InitInvites(Communities, { << >> }) /\ [][NextCache]_vars

\* one join handler at a time in g1 against a changing platform
NextJoin ==
    \/ Platform(Guilds)
    \/ \E u \in Users, usable \in BOOLEAN : JoinStart("g1", u, usable)
    \/ \E fetchOk \in BOOLEAN : JoinFetch(fetchOk)
    \/ \E fetchOk \in BOOLEAN : JoinEnsure(fetchOk)
    \/ \E dbOk \in BOOLEAN : JoinTracked(dbOk)
    \/ JoinRecord
    \/ JoinRecordFails
    \/ JoinInserted
    \/ \E fetchOk \in BOOLEAN : JoinRefresh(fetchOk)
    \/ \E call \in staleCleanup, dbOk \in BOOLEAN : CleanupStaleInvites(call, dbOk)

SpecJoin == InitInvites(Guilds, InitialUserInvites) /\ [][NextJoin]_vars

\* -------------------------------------------- the lifecycle on its own
\* join and leave events of every community, no validation run
NextLifecycle ==
    \/ Advance
    \/ \E g \in Communities, u \in Users, att \in Attributions : (RecordJoinUpdate(g, u, att) /\ UNCHANGED joinCall)
    \/ \E g \in Communities, u \in Users, att \in Attributions : (RecordJoinNoMatch(g, u, att) /\ UNCHANGED joinCall)
    \/ \E doc \in DOMAIN inserting : (UpsertInsert(doc) /\ UNCHANGED joinCall)
    \/ \E g \in Communities, u \in Users : MarkJoinsAsLeftEarly(g, u)
    \/ \E g \in Communities, u \in Users : MarkJoinsAsLeftEarlyFails(g, u)

SpecLifecycle == Init /\ [][NextLifecycle]_vars

\* ============================================= commands and guild delete
\* ------------------------------------------------- the read-side queries
\* TrackedJoin.countDocuments({ guildId, inviterId, status })
CountDocuments(docs, guildId, inviterId, status) ==
    Cardinality({ id \in DOMAIN docs : /\ docs[id].guildId = guildId
                                       /\ docs[id].inviterId = inviterId
                                       /\ docs[id].status = status })

\* a $match stage that forgets the status
LeaderboardMatch_AnyStatus(doc, guildId) == doc.guildId = guildId

\* the $match stage of the leaderboard pipeline
LeaderboardMatch(doc, guildId) == doc.guildId = guildId /\ doc.status = "validated"

\* the $group stage: one entry per inviterId with $sum: 1
LeaderboardGroup(docs, matched) ==
    { [ userId |-> i, count |-> Cardinality({ id \in matched : docs[id].inviterId = i }) ] :
        i \in { docs[id].inviterId : id \in matched } }

\* the $sort stage, { count: -1 }: the orders the sort may return, entries
\* of equal count in any order
LeaderboardSort(groups) ==
    { s \in [ 1..Cardinality(groups) -> groups ] :
        /\ \A i, j \in DOMAIN s : i < j => s[i].count >= s[j].count
        /\ \A i, j \in DOMAIN s : i # j => s[i] # s[j] }

\* the $limit stage
LeaderboardLimit(s, limit) == [ i \in 1..(IF Len(s) < limit THEN Len(s) ELSE limit) |-> s[i] ]

\* TrackedJoin.aggregate([$match, $group, $sort, $limit]): what it may return
LeaderboardData(docs, guildId) ==
    LET matched == { id \in DOMAIN docs : LeaderboardMatch(docs[id], guildId) }
    IN { LeaderboardLimit(s, LEADERBOARD_LIMIT) : s \in LeaderboardSort(LeaderboardGroup(docs, matched)) }

\* /leaderboard: the aggregation and the reply; the member fetch per entry
\* only picks the name shown, and the description of LEADERBOARD_LIMIT lines
\* stays below the 4096 characters at which it would be cut
Leaderboard(g, dbOk) ==
    /\ Event
    /\ lastOp' \in IF dbOk
          THEN { [ op |-> "leaderboard", guildId |-> g, leaderboardEntries |-> data ] :
                    data \in LeaderboardData(trackedJoins, g) }
          ELSE { [ op |-> "leaderboard_error", guildId |-> g ] }
    /\ UNCHANGED << now, stripsUndefined, otherJoinCall, clientGuilds, commandVars, storeVars, runVars,
                    platformVars, inviteVars, joinCall >>

\* ------------------------------------------------- UserInvite documents
\* the documents a filter { userId, guildId } matches
UserInviteMatches(docs, userId, guildId) ==
    { id \in DOMAIN docs : docs[id].userId = userId /\ docs[id].guildId = guildId }

\* the first document a filter matches, in natural order; {} for null
FirstOf(ids) == IF ids = {} THEN {} ELSE { Min(ids) }

\* a collection without the given documents
WithoutDocs(docs, ids) == [ id \in DOMAIN docs \ ids |-> docs[id] ]

\* an insert into a collection without the unique index
UniqueIndexAllows_NoIndex(docs, doc) == TRUE

\* inviteSchema.index({ userId: 1, guildId: 1 }, { unique: true }): whether
\* the index lets the document in
UniqueIndexAllows(docs, doc) == UserInviteMatches(docs, doc.userId, doc.guildId) = {}

\* the _id of a new UserInvite: an ObjectId no document has and no pending
\* cleanup holds
NewUserInviteId ==
    1 + Max({0} \cup DOMAIN userInvites
                \cup { joinCall.staleInviteIds[k] : k \in 1..Len(joinCall.staleInviteIds) }
                \cup UNION { { call.ids[k] : k \in 1..Len(call.ids) } : call \in staleCleanup })

\* the invite codes in use anywhere: live on the platform, stored, cached or
\* held by a command; the platform issues none of them again
KnownCodes ==
    UNION { DOMAIN liveInvites[g] : g \in DOMAIN liveInvites }
    \cup { userInvites[id].inviteCode : id \in DOMAIN userInvites }
    \cup UNION { DOMAIN inviteUsesCache[g] : g \in DOMAIN inviteUsesCache }
    \cup UNION { inviteCmd[s].inviteCode \cup inviteCmd[s].newCode : s \in Slots }

\* ---------------------------------------------------- the /invite command
\* the command ends in its catch block: the error reply
InviteCmdError(s) ==
    /\ inviteCmd' = [ inviteCmd EXCEPT ![s] = NoInviteCmd ]
    /\ lastOp' = [ op |-> "invite_error", guildId |-> inviteCmd[s].guildId,
                   userId |-> inviteCmd[s].userId ]

\* step 1: UserInvite.findOne({ userId, guildId })
InviteCmdStart(s, g, u, dbOk) ==
    /\ Event
    /\ inviteCmd[s].pc = "idle"
    /\ LET found == FirstOf(UserInviteMatches(userInvites, u, g))
           code == { userInvites[id].inviteCode : id \in found }
       IN IF dbOk
          THEN /\ inviteCmd' = [ inviteCmd EXCEPT ![s] =
                     [ NoInviteCmd EXCEPT !.pc = IF code = {} THEN "create" ELSE "verify",
                                          !.guildId = g, !.userId = u, !.inviteCode = code ] ]
               /\ lastOp' = NoOp
          ELSE /\ inviteCmd' = inviteCmd
               /\ lastOp' = [ op |-> "invite_error", guildId |-> g, userId |-> u ]
    /\ UNCHANGED << now, stripsUndefined, otherJoinCall, clientGuilds, storeVars, runVars, platformVars, inviteVars,
                    joinCall, PERFORM_GUILD_DELETE_CLEANUP, guildCleanup >>

\* step 2: guild.invites.fetch({ code, force: true }) answers, with the
\* invite, with Unknown Invite, or (apiOk false) with another error
InviteCmdVerify(s, apiOk) ==
    /\ inviteCmd[s].pc = "verify"
    /\ LET live == inviteCmd[s].inviteCode \subseteq DOMAIN liveInvites[inviteCmd[s].guildId]
       IN inviteCmd' = [ inviteCmd EXCEPT ![s] =
             IF ~apiOk THEN [ @ EXCEPT !.pc = "create" ]
             ELSE IF live THEN [ @ EXCEPT !.pc = "count_validated", !.inviteExistsOnDiscord = TRUE ]
             ELSE [ @ EXCEPT !.pc = "delete" ] ]
    /\ lastOp' = NoOp
    /\ UNCHANGED << now, stripsUndefined, otherJoinCall, clientGuilds, events, storeVars, runVars, platformVars, inviteVars,
                    joinCall, PERFORM_GUILD_DELETE_CLEANUP, guildCleanup >>

\* step 2, Unknown Invite: UserInvite.deleteOne({ userId, guildId, inviteCode })
InviteCmdDelete(s, dbOk) ==
    /\ inviteCmd[s].pc = "delete"
    /\ LET c == inviteCmd[s]
           matched == { id \in UserInviteMatches(userInvites, c.userId, c.guildId) :
                          { userInvites[id].inviteCode } = c.inviteCode }
       IN IF dbOk
          THEN /\ userInvites' = WithoutDocs(userInvites, FirstOf(matched))
               /\ inviteCmd' = [ inviteCmd EXCEPT ![s] = [ @ EXCEPT !.pc = "create", !.inviteCode = {} ] ]
               /\ lastOp' = NoOp
          ELSE /\ userInvites' = userInvites
               /\ InviteCmdError(s)
    /\ UNCHANGED << now, stripsUndefined, otherJoinCall, clientGuilds, events, storeVars, runVars, platformVars,
                    inviteUsesCache, staleCleanup,
                    joinCall, PERFORM_GUILD_DELETE_CLEANUP, guildCleanup >>

\* step 3: the bot member, the channel permission and channel.createInvite;
\* ok false when one of them fails
InviteCmdCreate(s, code, ok) ==
    /\ inviteCmd[s].pc = "create"
    /\ IF ok
       THEN /\ code \notin KnownCodes
            /\ liveInvites' = [ liveInvites EXCEPT ![inviteCmd[s].guildId] =
                                  (code :> [ uses |-> {0} ]) @@ @ ]
            /\ inviteCmd' = [ inviteCmd EXCEPT ![s] = [ @ EXCEPT !.pc = "upsert", !.newCode = {code} ] ]
            /\ lastOp' = NoOp
       ELSE /\ liveInvites' = liveInvites
            /\ InviteCmdError(s)
    /\ UNCHANGED << now, stripsUndefined, otherJoinCall, clientGuilds, events, storeVars, runVars, permissions, inviteVars,
                    joinCall, PERFORM_GUILD_DELETE_CLEANUP, guildCleanup >>

\* step 3: UserInvite.findOneAndUpdate({ userId, guildId }, { $set:
\* { inviteCode } }, { upsert: true }) looks for its document: it updates
\* the one it finds, or goes on to insert
InviteCmdUpsert(s, dbOk) ==
    /\ inviteCmd[s].pc = "upsert"
    /\ LET c == inviteCmd[s]
           found == FirstOf(UserInviteMatches(userInvites, c.userId, c.guildId))
           code == CHOOSE x \in c.newCode : TRUE
       IN IF ~dbOk
          THEN /\ userInvites' = userInvites
               /\ InviteCmdError(s)
          ELSE IF found # {}
          THEN /\ userInvites' = [ id \in DOMAIN userInvites |->
                     IF id \in found THEN [ userInvites[id] EXCEPT !.inviteCode = code ]
                                     ELSE userInvites[id] ]
               /\ inviteCmd' = [ inviteCmd EXCEPT ![s] =
                     [ @ EXCEPT !.pc = "count_validated", !.inviteCode = c.newCode ] ]
               /\ lastOp' = NoOp
          ELSE /\ userInvites' = userInvites
               /\ inviteCmd' = [ inviteCmd EXCEPT ![s] = [ @ EXCEPT !.pc = "insert" ] ]
               /\ lastOp' = NoOp
    /\ UNCHANGED << now, stripsUndefined, otherJoinCall, clientGuilds, events, storeVars, runVars, platformVars,
                    inviteUsesCache, staleCleanup,
                    joinCall, PERFORM_GUILD_DELETE_CLEANUP, guildCleanup >>

\* the insert half of the upsert: the unique index lets the document in, or
\* rejects it with a duplicate key error, which the server answers by
\* running the upsert again as an update (retried) or hands to the caller
InviteCmdInsert(s, retried) ==
    /\ inviteCmd[s].pc = "insert"
    /\ LET c == inviteCmd[s]
           code == CHOOSE x \in c.newCode : TRUE
           doc == [ userId |-> c.userId, guildId |-> c.guildId, inviteCode |-> code ]
           found == FirstOf(UserInviteMatches(userInvites, c.userId, c.guildId))
           done == [ c EXCEPT !.pc = "count_validated", !.inviteCode = c.newCode ]
       IN IF UniqueIndexAllows(userInvites, doc)
          THEN /\ userInvites' = (NewUserInviteId :> doc) @@ userInvites
               /\ inviteCmd' = [ inviteCmd EXCEPT ![s] = done ]
               /\ lastOp' = NoOp
          ELSE IF retried
          THEN /\ userInvites' = [ id \in DOMAIN userInvites |->
                     IF id \in found THEN [ userInvites[id] EXCEPT !.inviteCode = code ]
                                     ELSE userInvites[id] ]
               /\ inviteCmd' = [ inviteCmd EXCEPT ![s] = done ]
               /\ lastOp' = NoOp
          ELSE /\ userInvites' = userInvites
               /\ InviteCmdError(s)
    /\ UNCHANGED << now, stripsUndefined, otherJoinCall, clientGuilds, events, storeVars, runVars, platformVars,
                    inviteUsesCache, staleCleanup,
                    joinCall, PERFORM_GUILD_DELETE_CLEANUP, guildCleanup >>

\* step 4: the validated count; 0 and the error flag when the query fails
InviteCmdCountValidated(s, dbOk) ==
    /\ inviteCmd[s].pc = "count_validated"
    /\ LET c == inviteCmd[s]
       IN inviteCmd' = [ inviteCmd EXCEPT ![s] = [ c EXCEPT
             !.pc = "count_pending",
             !.validatedCount = IF dbOk THEN CountDocuments(trackedJoins, c.guildId, c.userId, "validated")
                                        ELSE 0,
             !.countError = ~dbOk ] ]
    /\ lastOp' = NoOp
    /\ UNCHANGED << now, stripsUndefined, otherJoinCall, clientGuilds, events, storeVars, runVars, platformVars, inviteVars,
                    joinCall, PERFORM_GUILD_DELETE_CLEANUP, guildCleanup >>

\* steps 4 and 5: the pending count, then the reply with both counts
InviteCmdCountPending(s, dbOk) ==
    /\ inviteCmd[s].pc = "count_pending"
    /\ LET c == inviteCmd[s]
       IN lastOp' = [ op |-> "invite", guildId |-> c.guildId, userId |-> c.userId,
                      inviteCode |-> c.inviteCode,
                      validatedCount |-> c.validatedCount,
                      pendingCount |-> IF dbOk THEN CountDocuments(trackedJoins, c.guildId, c.userId, "pending")
                                               ELSE 0,
                      countError |-> c.countError \/ ~dbOk ]
    /\ inviteCmd' = [ inviteCmd EXCEPT ![s] = NoInviteCmd ]
    /\ UNCHANGED << now, stripsUndefined, otherJoinCall, clientGuilds, events, storeVars, runVars, platformVars, inviteVars,
                    joinCall, PERFORM_GUILD_DELETE_CLEANUP, guildCleanup >>

\* the /invite command of interaction s
InviteCmd(s) ==
    \/ \E apiOk \in BOOLEAN : InviteCmdVerify(s, apiOk)
    \/ \E dbOk \in BOOLEAN : InviteCmdDelete(s, dbOk)
    \/ \E code \in Codes, ok \in BOOLEAN : InviteCmdCreate(s, code, ok)
    \/ \E dbOk \in BOOLEAN : InviteCmdUpsert(s, dbOk)
    \/ \E retried \in BOOLEAN : InviteCmdInsert(s, retried)
    \/ \E dbOk \in BOOLEAN : InviteCmdCountValidated(s, dbOk)
    \/ \E dbOk \in BOOLEAN : InviteCmdCountPending(s, dbOk)

\* ------------------------------------------------------------ GuildDelete
\* a cleanup that does not look at the configuration
GuildCleanupTargets_IgnoresFlag(docs, guildId, enabled) ==
    { id \in DOMAIN docs : docs[id].guildId = guildId }

\* _performGuildCleanup: the documents its deleteMany({ guildId }) removes,
\* none when PERFORM_GUILD_DELETE_CLEANUP is off
GuildCleanupTargets(docs, guildId, enabled) ==
    IF enabled THEN { id \in DOMAIN docs : docs[id].guildId = guildId } ELSE {}

\* the handler up to the first deleteMany of _performGuildCleanup: the cache
\* entry goes; with the cleanup on, the TrackedJoin documents of the guild
\* are deleted, or the deleteMany fails and is logged. Without a guild id
\* the handler returns at once.
GuildDelete(g, idKnown, dbOk) ==
    /\ Event
    /\ IF ~idKnown
       THEN /\ lastOp' = [ op |-> "guild_delete", guildId |-> "", cleanup |-> "skipped" ]
            /\ UNCHANGED << trackedJoins, inviteUsesCache, guildCleanup,
                            joinCall, otherJoinCall, clientGuilds >>
       ELSE /\ inviteUsesCache' = CacheDelete(inviteUsesCache, g)
            /\ clientGuilds' = clientGuilds \ {g}
            /\ joinCall' = Detach(joinCall, g, inviteUsesCache)
            /\ otherJoinCall' = Detach(otherJoinCall, g, inviteUsesCache)
            /\ trackedJoins' = IF dbOk
                  THEN WithoutDocs(trackedJoins,
                          GuildCleanupTargets(trackedJoins, g, PERFORM_GUILD_DELETE_CLEANUP))
                  ELSE trackedJoins
            /\ guildCleanup' = IF PERFORM_GUILD_DELETE_CLEANUP THEN guildCleanup \cup {g}
                                                               ELSE guildCleanup
            /\ lastOp' = [ op |-> "guild_delete", guildId |-> g,
                           cleanup |-> IF ~PERFORM_GUILD_DELETE_CLEANUP THEN "disabled"
                                       ELSE IF dbOk THEN "deleted" ELSE "failed" ]
    /\ UNCHANGED << now, stripsUndefined, inserting, runVars, platformVars,
                    userInvites, staleCleanup,
                    PERFORM_GUILD_DELETE_CLEANUP, inviteCmd >>

\* the second deleteMany of _performGuildCleanup: the UserInvite documents
GuildCleanupInvites(g, dbOk) ==
    /\ g \in guildCleanup
    /\ guildCleanup' = guildCleanup \ {g}
    /\ userInvites' = IF dbOk
          THEN WithoutDocs(userInvites, GuildCleanupTargets(userInvites, g, TRUE))
          ELSE userInvites
    /\ lastOp' = NoOp
    /\ UNCHANGED << now, stripsUndefined, otherJoinCall, clientGuilds, events, storeVars, runVars, platformVars,
                    inviteUsesCache, staleCleanup, joinCall,
                    PERFORM_GUILD_DELETE_CLEANUP, inviteCmd >>

\* ------------------------------------------- the queries over a store
\* the inviters whose joins the store of the query specification holds
StatsInviters == << "a", "b", "c" >>
StatsCodes == << "cA", "cB", "cX" >>
StatsStatuses == << "pending", "validated" >>
StatsGuilds == << "g1", "g2" >>

\* the k-th kind of TrackedJoin document: joined at time 0 and still
\* pending, or validated at time 1; kinds 0 to 5 are the joins of g1 through
\* a, b and c, kinds 6 and 7 the joins of g2 through a
StatsRecord(k, inviteeId) ==
    LET status == StatsStatuses[(k % 2) + 1]
        inviter == IF k < 6 THEN (k \div 2) + 1 ELSE 1
    IN [ guildId |-> StatsGuilds[IF k < 6 THEN 1 ELSE 2], inviteeId |-> inviteeId,
         inviterId |-> StatsInviters[inviter],
         inviteCodeUsed |-> StatsCodes[inviter],
         joinTimestamp |-> 0, status |-> status,
         validationTimestamp |-> IF status = "validated" THEN {1} ELSE NoDate,
         leaveTimestamp |-> NoDate ]

\* the kind of a document, as StatsRecord numbers them
KindOf(doc) ==
    CHOOSE k \in 0..7 : StatsRecord(k, doc.inviteeId) = doc

SamePairOf(d1, d2) == d1.guildId = d2.guildId /\ d1.inviteeId = d2.inviteeId

\* the stores of MaxRecords documents that joins and a validation run can
\* have produced by time 1: members u1, u2, u1, ..., no member pending
\* twice in a guild; the order of the documents plays no part in a query
InitialTrackedJoins ==
    { docs \in [ 1..MaxRecords -> { StatsRecord(k, u) : k \in 0..7, u \in Users } ] :
        /\ \A i \in 1..MaxRecords : docs[i].inviteeId = (IF i % 2 = 1 THEN "u1" ELSE "u2")
        /\ \A i, j \in 1..MaxRecords :
              (i < j /\ docs[i].status = "pending" /\ docs[j].status = "pending")
              => ~SamePairOf(docs[i], docs[j])
        /\ \A i \in 1..(MaxRecords - 1) : KindOf(docs[i]) <= KindOf(docs[i + 1]) }

\* the bot is ready at time 1 over a store of validated and pending joins;
\* a has a UserInvite in g1 whose invite is live, or gone
InitStats ==
    /\ now = 1
    /\ stripsUndefined = TRUE
    /\ trackedJoins \in InitialTrackedJoins
    /\ inserting = EmptyBag
    /\ events = 0
    /\ lastOp = NoOp
    /\ pc = [ r \in Runs |-> "idle" ]
    /\ validationCutoffDate = [ r \in Runs |-> 0 ]
    /\ validationTime = [ r \in Runs |-> 0 ]
    /\ candidates = [ r \in Runs |-> {} ]
    /\ todo = [ r \in Runs |-> {} ]
    /\ guildMemberPresenceCache = [ r \in Runs |-> << >> ]
    /\ bulkOps = [ r \in Runs |-> << >> ]
    /\ bulkResult = [ r \in Runs |-> NoBulkResult ]
    /\ liveInvites \in [ Guilds -> { << >>, [ c \in {"cA"} |-> [ uses |-> {0} ] ] } ]
    /\ permissions = [ g \in Guilds |-> "granted" ]
    /\ inviteUsesCache = [ g \in Guilds |-> UsesMap(liveInvites[g]) ]
    /\ userInvites = << [ userId |-> "a", guildId |-> "g1", inviteCode |-> "cA" ] >>
    /\ staleCleanup = {}
    /\ joinCall = NoJoinCall
    /\ otherJoinCall = NoJoinCall
    /\ clientGuilds = DOMAIN liveInvites
    /\ NoCommands

\* /leaderboard in every community and /invite in g1 over the store, with
\* members leaving between the queries
NextStats ==
    \/ \E g \in Communities, dbOk \in BOOLEAN : Leaderboard(g, dbOk)
    \/ \E u \in {"a", "b"}, dbOk \in BOOLEAN : InviteCmdStart(1, "g1", u, dbOk)
    \/ InviteCmd(1)
    \/ \E u \in Users : MarkJoinsAsLeftEarly("g1", u)

SpecStats == InitStats /\ [][NextStats]_vars

\* ------------------------------- joins, leaves, validation, guild delete
\* the bot is ready in g1, where a and b have their invites; the cleanup on
\* guild delete is on or off for the life of the process
InitGuild ==
    /\ now = 0
    /\ stripsUndefined = TRUE
    /\ trackedJoins = << >>
    /\ inserting = EmptyBag
    /\ events = 0
    /\ lastOp = NoOp
    /\ pc = [ r \in Runs |-> "idle" ]
    /\ validationCutoffDate = [ r \in Runs |-> 0 ]
    /\ validationTime = [ r \in Runs |-> 0 ]
    /\ candidates = [ r \in Runs |-> {} ]
    /\ todo = [ r \in Runs |-> {} ]
    /\ guildMemberPresenceCache = [ r \in Runs |-> << >> ]
    /\ bulkOps = [ r \in Runs |-> << >> ]
    /\ bulkResult = [ r \in Runs |-> NoBulkResult ]
    /\ liveInvites = [ g \in Guilds |-> [ c \in {"cA", "cB"} |-> [ uses |-> {0} ] ] ]
    /\ permissions = [ g \in Guilds |-> "granted" ]
    /\ inviteUsesCache = [ g \in Guilds |-> UsesMap(liveInvites[g]) ]
    /\ userInvites = << [ userId |-> "a", guildId |-> "g1", inviteCode |-> "cA" ],
                        [ userId |-> "b", guildId |-> "g1", inviteCode |-> "cB" ] >>
    /\ staleCleanup = {}
    /\ joinCall = NoJoinCall
    /\ otherJoinCall = NoJoinCall
    /\ clientGuilds = DOMAIN liveInvites
    /\ PERFORM_GUILD_DELETE_CLEANUP \in BOOLEAN
    /\ guildCleanup = {}
    /\ inviteCmd = [ s \in Slots |-> NoInviteCmd ]

\* every writer of the TrackedJoin collection: the join handler with its
\* stale cleanup, the leave handler, the validation task and GuildDelete
NextGuild ==
    \/ Advance
    \/ \E code \in {"cA", "cB"} : UseInvite("g1", code)
    \/ \E code \in {"cA", "cB"} : DeleteInvite("g1", code)
    \/ \E u \in Users : JoinStart("g1", u, TRUE)
    \/ \E fetchOk \in BOOLEAN : JoinFetch(fetchOk)
    \/ \E fetchOk \in BOOLEAN : JoinEnsure(fetchOk)
    \/ \E dbOk \in BOOLEAN : JoinTracked(dbOk)
    \/ JoinRecord
    \/ JoinInserted
    \/ \E fetchOk \in BOOLEAN : JoinRefresh(fetchOk)
    \/ \E call \in staleCleanup, dbOk \in BOOLEAN : CleanupStaleInvites(call, dbOk)
    \/ \E u \in Users : MarkJoinsAsLeftEarly("g1", u)
    \/ Validate("interval")
    \/ \E g \in Communities, idKnown \in BOOLEAN, dbOk \in BOOLEAN : GuildDelete(g, idKnown, dbOk)
    \/ \E g \in guildCleanup, dbOk \in BOOLEAN : GuildCleanupInvites(g, dbOk)

SpecGuild == InitGuild /\ [][NextGuild]_vars

\* ----------------------------------------- the writers of UserInvite
\* what a join handler that has ended may have left for _cleanupStaleInvites:
\* nothing, or the tracked records of the guild whose code it did not find
\* among the live invites
PendingStaleCleanups(g) ==
    LET tracked == TrackedUserInvites(g)
        stale == IF DOMAIN tracked = {} THEN << >>
                 ELSE FindUsedInviteAndStale({ liveInvites[g] }, UsesMap(liveInvites[g]),
                                             tracked).staleInviteIds
    IN IF Len(stale) = 0 THEN { {} }
       ELSE { {}, { [ ids |-> stale, guildId |-> g ] } }

\* the bot is ready in g1; a has a UserInvite or none, and the invite it
\* names is live or gone; a join may already have found it gone
InitLinks ==
    /\ now = 0
    /\ stripsUndefined = TRUE
    /\ trackedJoins = << >>
    /\ inserting = EmptyBag
    /\ events = 0
    /\ lastOp = NoOp
    /\ pc = [ r \in Runs |-> "idle" ]
    /\ validationCutoffDate = [ r \in Runs |-> 0 ]
    /\ validationTime = [ r \in Runs |-> 0 ]
    /\ candidates = [ r \in Runs |-> {} ]
    /\ todo = [ r \in Runs |-> {} ]
    /\ guildMemberPresenceCache = [ r \in Runs |-> << >> ]
    /\ bulkOps = [ r \in Runs |-> << >> ]
    /\ bulkResult = [ r \in Runs |-> NoBulkResult ]
    /\ liveInvites \in [ Guilds -> { << >>, [ c \in {"cA"} |-> [ uses |-> {0} ] ] } ]
    /\ permissions = [ g \in Guilds |-> "granted" ]
    /\ inviteUsesCache = [ g \in Guilds |-> UsesMap(liveInvites[g]) ]
    /\ userInvites \in { << >>, << [ userId |-> "a", guildId |-> "g1", inviteCode |-> "cA" ] >> }
    /\ staleCleanup \in PendingStaleCleanups("g1")
    /\ joinCall = NoJoinCall
    /\ otherJoinCall = NoJoinCall
    /\ clientGuilds = DOMAIN liveInvites
    /\ PERFORM_GUILD_DELETE_CLEANUP \in BOOLEAN
    /\ guildCleanup = {}
    /\ inviteCmd = [ s \in Slots |-> NoInviteCmd ]

\* every writer of the UserInvite collection: two /invite commands in
\* flight (the second interaction is the one that starts while another is
\* running), the stale cleanup a join has asked for and the guild cleanup,
\* while invites are deleted on the platform
NextLinks ==
    \/ \E u \in {"a", "b"}, dbOk \in BOOLEAN : InviteCmdStart(1, "g1", u, dbOk)
    \/ \E u \in {"a", "b"}, dbOk \in BOOLEAN :
          (inviteCmd[1].pc # "idle" /\ InviteCmdStart(2, "g1", u, dbOk))
    \/ \E s \in Slots : InviteCmd(s)
    \/ \E code \in Codes : DeleteInvite("g1", code)
    \/ \E call \in staleCleanup, dbOk \in BOOLEAN : CleanupStaleInvites(call, dbOk)
    \/ \E idKnown \in BOOLEAN, dbOk \in BOOLEAN : GuildDelete("g1", idKnown, dbOk)
    \/ \E g \in guildCleanup, dbOk \in BOOLEAN : GuildCleanupInvites(g, dbOk)

SpecLinks == InitLinks /\ [][NextLinks]_vars

\* ================================================================ claims
Terminal(doc) == doc.status \in { "validated", "left_early" }

SamePair(doc, guildId, inviteeId) == doc.guildId = guildId /\ doc.inviteeId = inviteeId

\* C1 (as stated): once a record is validated or left_early, no join, leave
\* or validation step changes its status again.
C1_TerminalStatusNeverChanges ==
    [][ \A id \in Ids : Terminal(trackedJoins[id])
            => trackedJoins'[id].status = trackedJoins[id].status ]_vars

\* C1 (amended): the leave handler and the validation task never change a
\* validated or left_early status; the only step that changes one is the
\* upsert of a join for the same pair, and it resets the record to pending.
C1_TerminalChangesOnlyByJoin ==
    [][ \A id \in Ids :
            (Terminal(trackedJoins[id]) /\ trackedJoins'[id].status # trackedJoins[id].status)
            => /\ trackedJoins'[id].status = "pending"
               /\ lastOp' = [ op |-> "join", id |-> id ] ]_vars

\* a leave event has just been handled for a member whose record was already
\* validated, and the record is still validated
C1_Witness ==
    /\ lastOp.op = "leave"
    /\ lastOp.modifiedCount = 0
    /\ \E id \in Ids : /\ SamePair(trackedJoins[id], lastOp.guildId, lastOp.userId)
                       /\ trackedJoins[id].status = "validated"

\* C2: the bulk write of a validation run does not modify a record that the
\* leave handler has moved to left_early since the run's find: the record
\* keeps its status and its leaveTimestamp.
C2_BulkWriteKeepsLeftEarly ==
    [][ \A r \in Runs : (pc[r] = "write" /\ pc'[r] = "finally")
            => \A id \in Ids :
                  (id \in candidates[r] /\ trackedJoins[id].status = "left_early")
                  => trackedJoins'[id] = trackedJoins[id] ]_vars

\* a run has written, one of its operations asked for validated, and the
\* record is left_early: the leave handler got there between find and write
C2_Witness ==
    \E r \in Runs : /\ pc[r] = "finally"
                    /\ bulkResult[r].error = "none"
                    /\ \E id \in DOMAIN bulkOps[r] :
                          /\ bulkOps[r][id].status = "validated"
                          /\ trackedJoins[id].status = "left_early"
                          /\ trackedJoins[id].validationTimestamp = NoDate

\* C3: a validated record was validated at least one validation period after
\* its joinTimestamp.
C3_ValidatedAfterPeriod ==
    \A id \in Ids : trackedJoins[id].status = "validated"
        => \A v \in trackedJoins[id].validationTimestamp :
              v - trackedJoins[id].joinTimestamp >= VALIDATION_PERIOD_MS

\* C4: in the candidate loop a member found present gets a validated
\* operation carrying the validationTimestamp, an unknown-member or
\* unknown-user answer gets a left_early operation carrying the
\* leaveTimestamp, and every other outcome gets no operation; the bulk write
\* applies exactly the prepared operations to the records still pending.
C4_PresenceDecidesTransition ==
    [][ \A r \in Runs :
          /\ \A k \in BOOLEAN, f \in FetchAnswers :
                (ValidateCandidate(r, k, f)
                    /\ MemberCacheKey(trackedJoins[Min(todo[r])]) \notin DOMAIN guildMemberPresenceCache[r])
                => LET id == Min(todo[r])
                   IN IF k /\ f = "member"
                      THEN bulkOps'[r] = (id :> [ status |-> "validated",
                              validationTimestamp |-> {validationTime[r]} ]) @@ bulkOps[r]
                      ELSE IF k /\ f \in { "unknown_member", "unknown_user" }
                      THEN bulkOps'[r] = (id :> [ status |-> "left_early",
                              leaveTimestamp |-> {validationTime[r]} ]) @@ bulkOps[r]
                      ELSE bulkOps'[r] = bulkOps[r]
          /\ ValidateWrite(r)
                => \A id \in Ids :
                     IF id \in DOMAIN bulkOps[r] /\ trackedJoins[id].status = "pending"
                     THEN IF bulkOps[r][id].status = "validated"
                          THEN trackedJoins'[id] = [ trackedJoins[id] EXCEPT
                                  !.status = "validated",
                                  !.validationTimestamp = {validationTime[r]} ]
                          ELSE trackedJoins'[id] = [ trackedJoins[id] EXCEPT
                                  !.status = "left_early",
                                  !.leaveTimestamp = {validationTime[r]} ]
                     ELSE trackedJoins'[id] = trackedJoins[id] ]_vars

\* one run has validated a present member and marked an absent one left_early
C4_Witness ==
    \E r \in Runs :
        /\ pc[r] = "finally"
        /\ bulkResult[r].modifiedCount = 2
        /\ \E i, j \in candidates[r] :
              /\ guildMemberPresenceCache[r][MemberCacheKey(trackedJoins[i])] = "present"
              /\ trackedJoins[i].status = "validated"
              /\ trackedJoins[i].validationTimestamp = {validationTime[r]}
              /\ guildMemberPresenceCache[r][MemberCacheKey(trackedJoins[j])] = "left"
              /\ trackedJoins[j].status = "left_early"
              /\ trackedJoins[j].leaveTimestamp = {validationTime[r]}

\* C5: a candidate whose presence lookup fails with a generic error gets no
\* operation and the loop goes on to the next candidate; the bulk write leaves
\* every record without an operation unchanged and transitions the other
\* candidates that are still pending.
C5_GenericErrorSkipsOnlyThatCandidate ==
    [][ \A r \in Runs :
          /\ (ValidateCandidate(r, TRUE, "other_error")
                /\ MemberCacheKey(trackedJoins[Min(todo[r])]) \notin DOMAIN guildMemberPresenceCache[r])
                => /\ bulkOps'[r] = bulkOps[r]
                   /\ todo'[r] = todo[r] \ { Min(todo[r]) }
                   /\ pc'[r] = IF todo'[r] = {} THEN "write" ELSE "loop"
          /\ ValidateWrite(r)
                => \A id \in candidates[r] :
                     IF id \in DOMAIN bulkOps[r]
                     THEN trackedJoins[id].status = "pending" => Terminal(trackedJoins'[id])
                     ELSE trackedJoins'[id] = trackedJoins[id] ]_vars

\* a run skipped one candidate on a generic error and transitioned another
C5_Witness ==
    \E r \in Runs :
        /\ pc[r] = "finally"
        /\ bulkResult[r].modifiedCount = 1
        /\ \E i, j \in candidates[r] :
              /\ guildMemberPresenceCache[r][MemberCacheKey(trackedJoins[i])] = "error_skip"
              /\ i \notin DOMAIN bulkOps[r]
              /\ trackedJoins[i].status = "pending"
              /\ j \in DOMAIN bulkOps[r]
              /\ Terminal(trackedJoins[j])

\* C6: the find of a run that started at time t returns exactly the records
\* that are pending with joinTimestamp + period <= t.
C6_CandidatesExactlyPendingAtCutoff ==
    [][ \A r \in Runs : ValidateFind(r)
            => candidates'[r] = { id \in Ids :
                  /\ trackedJoins[id].status = "pending"
                  /\ trackedJoins[id].joinTimestamp + VALIDATION_PERIOD_MS <= validationTime[r] } ]_vars

\* the find returned a record exactly at the cutoff and left out a pending
\* record one time unit younger
C6_Witness ==
    \E r \in Runs :
        /\ pc[r] = "loop"
        /\ todo[r] = candidates[r]
        /\ \E i \in candidates[r] :
              trackedJoins[i].joinTimestamp = validationTime[r] - VALIDATION_PERIOD_MS
        /\ \E j \in Ids \ candidates[r] :
              /\ trackedJoins[j].status = "pending"
              /\ trackedJoins[j].joinTimestamp = validationTime[r] - VALIDATION_PERIOD_MS + 1

FirstRunComplete ==
    /\ bulkResult["initial"].error = "none"
    /\ DOMAIN bulkOps["initial"] = candidates["initial"]

C8_SecondJoinLeavesOneDocument ==
    [][ \A g \in Guilds, u \in Users, att \in Attributions :
          RecordJoinUpdate(g, u, att)
          => LET docs == { id \in DOMAIN trackedJoins' : SamePair(trackedJoins'[id], g, u) }
             IN /\ Cardinality(docs) = 1
                /\ \A id \in docs :
                      /\ trackedJoins'[id].inviterId = att.inviterId
                      /\ trackedJoins'[id].inviteCodeUsed = att.inviteCode
                      /\ trackedJoins'[id].status = "pending"
                      /\ trackedJoins'[id].joinTimestamp = now ]_vars

\* C9: the record a recordJoin updates is pending afterwards, has the call's
\* joinTimestamp and neither a validationTimestamp nor a leaveTimestamp.
C9_RejoinClearsTimestamps ==
    [][ \A g \in Guilds, u \in Users, att \in Attributions :
          RecordJoinUpdate(g, u, att)
          => /\ lastOp'.id \in Ids
             /\ trackedJoins'[lastOp'.id].status = "pending"
             /\ trackedJoins'[lastOp'.id].joinTimestamp = now
             /\ trackedJoins'[lastOp'.id].validationTimestamp = NoDate
             /\ trackedJoins'[lastOp'.id].leaveTimestamp = NoDate ]_vars

\* C10: the update of the leave handler moves every pending record of the
\* pair to left_early with the leave time; no pending record of the pair is
\* left.
C10_LeaveMovesEveryPending ==
    [][ \A g \in Guilds, u \in Users :
          MarkJoinsAsLeftEarly(g, u)
          => \A id \in Ids : SamePair(trackedJoins[id], g, u)
                => /\ trackedJoins'[id].status # "pending"
                   /\ trackedJoins[id].status = "pending"
                        => /\ trackedJoins'[id].status = "left_early"
                           /\ trackedJoins'[id].leaveTimestamp = {now} ]_vars

\* a leave has just moved two pending records of one member to left_early
C10_Witness ==
    /\ lastOp.op = "leave"
    /\ lastOp.modifiedCount = 2
    /\ \A id \in Ids : SamePair(trackedJoins[id], lastOp.guildId, lastOp.userId)
          => /\ trackedJoins[id].status = "left_early"
             /\ trackedJoins[id].leaveTimestamp = {now}

\* C11: a leave for a pair that has no pending record modifies no document
\* and reports success with a modified count of zero; and whatever a leave
\* matches, it changes no record that is validated or left_early and no
\* record of another member or another community.
C11_LeaveWithoutPendingChangesNothing ==
    [][ \A g \in Communities, u \in Users :
          MarkJoinsAsLeftEarly(g, u)
          => /\ (\A id \in Ids : SamePair(trackedJoins[id], g, u)
                                    => trackedJoins[id].status # "pending")
                => /\ trackedJoins' = trackedJoins
                   /\ lastOp' = [ op |-> "leave", guildId |-> g, userId |-> u,
                                  modifiedCount |-> 0 ]
             /\ \A id \in Ids :
                   (Terminal(trackedJoins[id]) \/ ~SamePair(trackedJoins[id], g, u))
                   => trackedJoins'[id] = trackedJoins[id] ]_vars

\* a leave has just been handled for a member who has no record in that
\* community, while another member of the community and the same member in
\* another community have pending records
C11_Witness ==
    /\ lastOp.op = "leave"
    /\ lastOp.modifiedCount = 0
    /\ \A i \in Ids : ~SamePair(trackedJoins[i], lastOp.guildId, lastOp.userId)
    /\ \E j, k \in Ids :
          /\ trackedJoins[j].guildId = lastOp.guildId
          /\ trackedJoins[j].inviteeId # lastOp.userId
          /\ trackedJoins[j].status = "pending"
          /\ trackedJoins[k].guildId # lastOp.guildId
          /\ trackedJoins[k].inviteeId = lastOp.userId
          /\ trackedJoins[k].status = "pending"

\* C12: a join that completes right after a join with the same arguments
\* completed leaves the store as it was apart from that record's
\* joinTimestamp, and a leave handled right after a leave of the same pair
\* modifies nothing.
C12_RedeliveryLeavesSameStore ==
    [][ /\ \A g \in Communities, u \in Users, att \in Attributions :
              ( /\ lastOp.op = "join"
                /\ SamePair(trackedJoins[lastOp.id], g, u)
                /\ trackedJoins[lastOp.id].inviterId = att.inviterId
                /\ trackedJoins[lastOp.id].inviteCodeUsed = att.inviteCode
                /\ \/ RecordJoinUpdate(g, u, att)
                   \/ \E t \in 0..now : UpsertInsert(
                          NewTrackedJoin(g, u, att.inviterId, att.inviteCode, t)) )
              => trackedJoins' = [ trackedJoins EXCEPT ![lastOp.id].joinTimestamp = now ]
        /\ \A g \in Communities, u \in Users :
              ( /\ lastOp.op = "leave"
                /\ lastOp.guildId = g
                /\ lastOp.userId = u
                /\ MarkJoinsAsLeftEarly(g, u) )
              => /\ trackedJoins' = trackedJoins
                 /\ lastOp'.modifiedCount = 0 ]_vars

\* C13: a cacheGuildInvites that returns true leaves for the guild a mapping
\* whose keys are exactly the invite codes live at the fetch and whose value
\* for a code is the invite's use count at the fetch, 0 when the platform
\* reports none; nothing of the previous mapping survives.
C13_RefreshStoresLiveUses ==
    [][ \A g \in Communities, fetchOk \in BOOLEAN :
          (CacheGuildInvites(g, fetchOk) /\ lastOp'.returned)
          => /\ g \in DOMAIN inviteUsesCache'
             /\ DOMAIN inviteUsesCache'[g] = DOMAIN liveInvites[g]
             /\ \A code \in DOMAIN liveInvites[g] :
                   /\ liveInvites[g][code].uses = {} => inviteUsesCache'[g][code] = 0
                   /\ \A n \in liveInvites[g][code].uses : inviteUsesCache'[g][code] = n ]_vars

\* a refresh has just succeeded on a guild that has an invite without a
\* reported use count, cached as 0, an invite with one use, and no cA
C13_Witness ==
    /\ lastOp.op = "refresh"
    /\ lastOp.returned
    /\ LET g == lastOp.guildId
       IN /\ DOMAIN inviteUsesCache[g] = DOMAIN liveInvites[g]
          /\ "cA" \notin DOMAIN inviteUsesCache[g]
          /\ \E c, d \in DOMAIN liveInvites[g] :
                /\ liveInvites[g][c].uses = {}
                /\ inviteUsesCache[g][c] = 0
                /\ liveInvites[g][d].uses = {1}
                /\ inviteUsesCache[g][d] = 1

\* C14: a cacheGuildInvites on a guild where the permission is absent or
\* whose fetch fails returns false and leaves no entry for the guild; the
\* entries of the other guilds are as before.
C14_FailedRefreshClearsEntry ==
    [][ \A g \in Communities, fetchOk \in BOOLEAN :
          (CacheGuildInvites(g, fetchOk)
              /\ (~HasRequiredPermissions(permissions[g]) \/ ~fetchOk))
          => /\ lastOp'.returned = FALSE
             /\ g \notin DOMAIN inviteUsesCache'
             /\ DOMAIN inviteUsesCache' = DOMAIN inviteUsesCache \ {g}
             /\ \A h \in DOMAIN inviteUsesCache' : inviteUsesCache'[h] = inviteUsesCache[h] ]_vars

\* a refresh has just failed on a guild whose permission was withdrawn; the
\* guild has no entry and the other guild still has its own
C14_Witness ==
    /\ lastOp.op = "refresh"
    /\ lastOp.returned = FALSE
    /\ permissions[lastOp.guildId] = "denied"
    /\ events > 0
    /\ lastOp.guildId \notin DOMAIN inviteUsesCache
    /\ \E h \in DOMAIN inviteUsesCache : DOMAIN inviteUsesCache[h] = Codes

\* C15: _ensureInviteCache returns the cached mapping without calling
\* cacheGuildInvites or fetching when the guild has an entry; without an
\* entry it calls cacheGuildInvites once and returns the new mapping when
\* that succeeds, or null with no entry left when it fails.
C15_EnsureRefreshesOnlyWhenAbsent ==
    [][ \A g \in Communities, fetchOk \in BOOLEAN :
          EnsureInviteCache(g, fetchOk)
          => IF g \in DOMAIN inviteUsesCache
             THEN /\ lastOp'.returned = { inviteUsesCache[g] }
                  /\ lastOp'.refreshes = 0
                  /\ lastOp'.fetches = 0
                  /\ inviteUsesCache' = inviteUsesCache
             ELSE /\ lastOp'.refreshes = 1
                  /\ lastOp'.fetches <= 1
                  /\ IF HasRequiredPermissions(permissions[g]) /\ fetchOk
                     THEN /\ g \in DOMAIN inviteUsesCache'
                          /\ inviteUsesCache'[g] = UsesMap(liveInvites[g])
                          /\ lastOp'.returned = { inviteUsesCache'[g] }
                     ELSE /\ g \notin DOMAIN inviteUsesCache'
                          /\ lastOp'.returned = {} ]_vars

\* an ensure has just returned a cached mapping that is behind the live
\* invites: it did not fetch
C15_Witness ==
    /\ lastOp.op = "ensure"
    /\ lastOp.refreshes = 0
    /\ lastOp.fetches = 0
    /\ lastOp.returned = { inviteUsesCache[lastOp.guildId] }
    /\ inviteUsesCache[lastOp.guildId] # UsesMap(liveInvites[lastOp.guildId])

\* ------------------------------------------- the engine seen from outside
\* the invite collection the handler fetched
Fetched == CHOOSE invites \in joinCall.currentInvites : TRUE

\* the mapping the cache holds for the handler's guild
Cached == inviteUsesCache[joinCall.guildId]

\* the _ids of the UserInvite records of the handler's guild
Tracked == { id \in DOMAIN userInvites : userInvites[id].guildId = joinCall.guildId }

\* the handler step that runs the comparison: the tracked invites arrived,
\* there are some, and the current invites were fetched
EngineRuns == JoinTracked(TRUE) /\ Tracked # {} /\ joinCall.currentInvites # {}

\* the record's code is live and its current count is above its cached count
CountIncreased(id) ==
    LET code == userInvites[id].inviteCode
    IN /\ code \in DOMAIN Fetched
       /\ code \in DOMAIN Cached
       /\ Uses(Fetched[code]) > Cached[code]

\* the record's code is live, has no cached count and has been used
FallbackIncreased(id) ==
    LET code == userInvites[id].inviteCode
    IN /\ code \in DOMAIN Fetched
       /\ code \notin DOMAIN Cached
       /\ Uses(Fetched[code]) > 0

\* the candidate the engine is expected to build for an increasing record
Candidate(id) ==
    LET code == userInvites[id].inviteCode
    IN [ inviterId |-> userInvites[id].userId, inviteCode |-> code,
         delta |-> IF code \in DOMAIN Cached THEN Uses(Fetched[code]) - Cached[code]
                   ELSE Uses(Fetched[code]) ]

\* C16 (as stated): when exactly one tracked record has a live code whose
\* current count is above its cached count and no tracked code is missing
\* upstream, the attribution is that record's owner and code with
\* delta = current - cached, and no record is stale.
C16_SingleIncreaseIsAttributed ==
    [][ \A id \in Tracked :
          ( /\ EngineRuns
            /\ CountIncreased(id)
            /\ \A other \in Tracked \ {id} : ~CountIncreased(other)
            /\ \A any \in Tracked : userInvites[any].inviteCode \in DOMAIN Fetched )
          => /\ joinCall'.attribution = { Candidate(id) }
             /\ joinCall'.staleInviteIds = << >> ]_vars

\* C16 (amended): the same, provided no other tracked record has a live code
\* that is missing from the cached mapping with a positive current count.
C16_SingleIncreaseIsAttributedWithoutFallback ==
    [][ \A id \in Tracked :
          ( /\ EngineRuns
            /\ CountIncreased(id)
            /\ \A other \in Tracked \ {id} :
                  ~CountIncreased(other) /\ ~FallbackIncreased(other)
            /\ \A any \in Tracked : userInvites[any].inviteCode \in DOMAIN Fetched )
          => /\ joinCall'.attribution = { Candidate(id) }
             /\ joinCall'.staleInviteIds = << >> ]_vars

\* the engine has attributed a join to the only one of two tracked records
\* whose count went up, from a cached 1 to a current 2
C16_Witness ==
    /\ joinCall.pc = "record"
    /\ Cardinality(Tracked) = 2
    /\ Len(joinCall.potentialAttributions) = 1
    /\ joinCall.staleInviteIds = << >>
    /\ \E att \in joinCall.attribution :
          /\ att.delta = 1
          /\ att.inviteCode \in DOMAIN Cached
          /\ Cached[att.inviteCode] = 1
          /\ Fetched[att.inviteCode].uses = {2}

\* C17: an attribution is the owner and code of a tracked record whose code
\* is live and whose count increased (above the cached count, or above zero
\* when the cache has no count for it); so a record that did not increase
\* and a code without record are never attributed.
C17_OnlyIncreasedTrackedRecords ==
    [][ \A dbOk \in BOOLEAN : JoinTracked(dbOk)
          => \A att \in joinCall'.attribution :
                \E id \in Tracked :
                   /\ att.inviterId = userInvites[id].userId
                   /\ att.inviteCode = userInvites[id].inviteCode
                   /\ CountIncreased(id) \/ FallbackIncreased(id) ]_vars

\* the engine has attributed a join to cB while the untracked cX went up as
\* well and the tracked cA is live with its cached count
C17_Witness ==
    /\ joinCall.pc = "record"
    /\ \E att \in joinCall.attribution : att.inviteCode = "cB"
    /\ {"cA", "cX"} \subseteq DOMAIN Fetched \cap DOMAIN Cached
    /\ Uses(Fetched["cX"]) > Cached["cX"]
    /\ Uses(Fetched["cA"]) = Cached["cA"]
    /\ \E id \in Tracked : userInvites[id].inviteCode = "cA"

\* C18: when two or more tracked records increased, the attribution is the
\* first of them in the order of the tracked records, and the candidates
\* reported are exactly the increasing records, each with its delta.
C18_FirstOfSeveralIsAttributed ==
    [][ EngineRuns
          => LET increased == { id \in Tracked : CountIncreased(id) \/ FallbackIncreased(id) }
             IN Cardinality(increased) >= 2
                => /\ joinCall'.attribution = { Candidate(Min(increased)) }
                   /\ Len(joinCall'.potentialAttributions) = Cardinality(increased)
                   /\ \A id \in increased :
                         \E k \in 1..Len(joinCall'.potentialAttributions) :
                            joinCall'.potentialAttributions[k] = Candidate(id) ]_vars

\* two tracked records increased, cB is the first record, and the join went
\* to cB with both reported
C18_Witness ==
    /\ joinCall.pc = "record"
    /\ Len(joinCall.potentialAttributions) = 2
    /\ joinCall.attribution = { joinCall.potentialAttributions[1] }
    /\ joinCall.potentialAttributions[1].inviteCode = "cB"
    /\ joinCall.potentialAttributions[2].inviteCode = "cA"
    /\ userInvites[1].inviteCode = "cB"

\* C19: when no tracked record increased, the engine returns no attribution
\* and the handler goes on to the cache refresh; and a handler without
\* attribution creates no TrackedJoin and changes none.
C19_NoIncreaseNoTrackedJoin ==
    [][ /\ ( /\ EngineRuns
             /\ \A id \in Tracked : ~CountIncreased(id) /\ ~FallbackIncreased(id) )
           => /\ joinCall'.attribution = {}
              /\ joinCall'.pc = "refresh"
        /\ (joinCall.attribution = {} /\ joinCall'.attribution = {})
           => /\ trackedJoins' = trackedJoins
              /\ inserting' = inserting ]_vars

\* the engine has compared and found no tracked increase although the
\* untracked cX was used; no TrackedJoin exists
C19_Witness ==
    /\ joinCall.pc = "refresh"
    /\ joinCall.currentInvites # {}
    /\ joinCall.attribution = {}
    /\ Tracked # {}
    /\ joinCall.guildId \in DOMAIN inviteUsesCache
    /\ "cX" \in DOMAIN Fetched \cap DOMAIN Cached
    /\ Uses(Fetched["cX"]) > Cached["cX"]
    /\ trackedJoins = << >>
    /\ inserting = EmptyBag

\* C20: the engine reports exactly the tracked records whose code is not
\* among the fetched invites as stale and removes exactly their codes from
\* the cached mapping, with or without an attribution; the attribution is
\* never a stale record.
C20_StaleReportedAndUncached ==
    [][ EngineRuns
          => LET stale == { id \in Tracked : userInvites[id].inviteCode \notin DOMAIN Fetched }
                 staleCodes == { userInvites[id].inviteCode : id \in stale }
             IN /\ { joinCall'.staleInviteIds[k] : k \in 1..Len(joinCall'.staleInviteIds) } = stale
                /\ Len(joinCall'.staleInviteIds) = Cardinality(stale)
                /\ inviteUsesCache'[joinCall.guildId] =
                      [ c \in DOMAIN Cached \ staleCodes |-> Cached[c] ]
                /\ \A att \in joinCall'.attribution : att.inviteCode \in DOMAIN Fetched ]_vars

\* the engine has attributed a join to one record and reported the other,
\* whose invite was deleted, as stale; its code has left the cached mapping
C20_Witness ==
    /\ joinCall.pc = "record"
    /\ joinCall.attribution # {}
    /\ Len(joinCall.staleInviteIds) = 1
    /\ LET code == userInvites[joinCall.staleInviteIds[1]].inviteCode
       IN /\ code \notin DOMAIN Fetched
          /\ code \notin DOMAIN Cached
          /\ \A att \in joinCall.attribution : att.inviteCode # code
    /\ [ ids |-> joinCall.staleInviteIds, guildId |-> joinCall.guildId ] \in staleCleanup

\* a step of the running join handler: it moves the handler on; the Map a
\* suspended handler is left holding when another step replaces the cache
\* entry (cachedUses) is no step of the handler
HandlerStep ==
    /\ joinCall.pc # "idle"
    /\ [ joinCall' EXCEPT !.cachedUses = {} ] # [ joinCall EXCEPT !.cachedUses = {} ]

\* C21: with the live invites null the engine compares nothing: no
\* attribution, no stale ids, the cached mapping as it was, nothing handed to
\* the cleanup; when the cache cannot be established the handler ends; and
\* in both cases the handler writes no TrackedJoin and deletes no UserInvite.
C21_NoComparisonWithoutLiveInvitesOrCache ==
    [][ /\ \A dbOk \in BOOLEAN :
              (JoinTracked(dbOk) /\ joinCall.currentInvites = {})
              => /\ joinCall'.attribution = {}
                 /\ joinCall'.staleInviteIds = << >>
                 /\ joinCall'.potentialAttributions = << >>
                 /\ joinCall'.pc = "refresh"
                 /\ UNCHANGED << inviteUsesCache, staleCleanup, userInvites, storeVars >>
        /\ (HandlerStep /\ joinCall.currentInvites = {} /\ joinCall.pc \in {"tracked", "refresh"})
              => UNCHANGED << staleCleanup, userInvites, storeVars >>
        /\ \A fetchOk \in BOOLEAN :
              ( \/ JoinFetch(fetchOk) /\ joinCall.guildId \notin DOMAIN inviteUsesCache
                                     /\ ~HasRequiredPermissions(permissions[joinCall.guildId])
                \/ JoinEnsure(fetchOk) /\ ~RefreshSucceeds(permissions[joinCall.guildId], fetchOk) )
              => /\ joinCall' = NoJoinCall
                 /\ UNCHANGED << staleCleanup, userInvites, storeVars >> ]_vars

\* the live fetch failed while the cache holds a mapping against which one
\* tracked code has gone up and the other is gone from the platform; the
\* engine has run and returned nothing, the mapping still has both codes
C21_Witness ==
    /\ joinCall.pc = "refresh"
    /\ joinCall.currentInvites = {}
    /\ Cardinality(Tracked) = 2
    /\ joinCall.guildId \in DOMAIN inviteUsesCache
    /\ {"cA", "cB"} \subseteq DOMAIN Cached
    /\ "cA" \in DOMAIN liveInvites[joinCall.guildId]
    /\ Uses(liveInvites[joinCall.guildId]["cA"]) > Cached["cA"]
    /\ "cB" \notin DOMAIN liveInvites[joinCall.guildId]
    /\ staleCleanup = {}
    /\ trackedJoins = << >>

\* C25: no member has two pending TrackedJoin records in one community.
C25_AtMostOnePendingPerPair ==
    \A g \in Communities, u \in Users :
        Cardinality({ id \in Ids : SamePair(trackedJoins[id], g, u)
                                      /\ trackedJoins[id].status = "pending" }) <= 1

\* C26: for a tracked record whose code is among the fetched invites and
\* has no count in the cached mapping, the engine reports a candidate with
\* delta = currentUses when currentUses > 0, and neither a candidate nor a
\* stale id when currentUses = 0.
C26_FallbackExactlyWhenUsed ==
    [][ EngineRuns
          => \A id \in Tracked :
                LET code == userInvites[id].inviteCode
                    reported == { joinCall'.potentialAttributions[k] :
                                     k \in 1..Len(joinCall'.potentialAttributions) }
                IN (code \in DOMAIN Fetched /\ code \notin DOMAIN Cached)
                   => /\ Uses(Fetched[code]) > 0
                         => [ inviterId |-> userInvites[id].userId, inviteCode |-> code,
                              delta |-> Uses(Fetched[code]) ] \in reported
                      /\ Uses(Fetched[code]) = 0
                         => \A p \in reported : p.inviteCode # code
                      /\ \A k \in 1..Len(joinCall'.staleInviteIds) :
                            joinCall'.staleInviteIds[k] # id ]_vars

\* two tracked codes are live and missing from the cached mapping: the one
\* that was used is the attribution, the one with no use gave no signal
C26_Witness ==
    /\ joinCall.pc = "record"
    /\ Len(joinCall.potentialAttributions) = 1
    /\ joinCall.staleInviteIds = << >>
    /\ \E id, other \in Tracked :
          /\ userInvites[id].inviteCode \in DOMAIN Fetched \ DOMAIN Cached
          /\ Uses(Fetched[userInvites[id].inviteCode]) = 1
          /\ joinCall.attribution = { Candidate(id) }
          /\ userInvites[other].inviteCode \in DOMAIN Fetched \ DOMAIN Cached
          /\ Uses(Fetched[userInvites[other].inviteCode]) = 0

\* C27: a candidate whose guild the bot does not know is skipped without a
\* member fetch: no operation is prepared and no record changes; the bulk
\* write leaves every candidate without operation as it was; and the find of
\* the next run returns every candidate of the run before that is still
\* pending.
C27_UnknownGuildCandidateIsSkipped ==
    [][ /\ \A r \in Runs, f \in FetchAnswers :
              ( /\ ValidateCandidate(r, FALSE, f)
                /\ MemberCacheKey(trackedJoins[Min(todo[r])]) \notin DOMAIN guildMemberPresenceCache[r] )
              => /\ lastOp' = [ op |-> "presence", id |-> Min(todo[r]), lookup |-> "guild_unknown" ]
                 /\ bulkOps'[r] = bulkOps[r]
                 /\ trackedJoins' = trackedJoins
                 /\ guildMemberPresenceCache'[r][MemberCacheKey(trackedJoins[Min(todo[r])])] = "error_skip"
        /\ \A r \in Runs : ValidateWrite(r)
              => \A id \in candidates[r] \ DOMAIN bulkOps[r] : trackedJoins'[id] = trackedJoins[id]
        /\ ValidateFind("interval")
              => \A id \in candidates["initial"] :
                    trackedJoins[id].status = "pending" => id \in candidates'["interval"] ]_vars

\* the second run has just skipped, for the unknown guild, a candidate that
\* the first run had skipped as well; the record is still pending
C27_Witness ==
    /\ lastOp.op = "presence"
    /\ lastOp.lookup = "guild_unknown"
    /\ lastOp.id \in candidates["initial"] \cap candidates["interval"]
    /\ lastOp.id \notin DOMAIN bulkOps["initial"] \cup DOMAIN bulkOps["interval"]
    /\ trackedJoins[lastOp.id].status = "pending"
    /\ trackedJoins[lastOp.id].validationTimestamp = NoDate
    /\ trackedJoins[lastOp.id].leaveTimestamp = NoDate

\* the fields the validation task and the leave handler never write
FixedFields(doc) ==
    << doc.guildId, doc.inviteeId, doc.inviterId, doc.inviteCodeUsed, doc.joinTimestamp >>

\* C28: a step of the leave handler or of a validation run leaves guildId,
\* inviteeId, inviterId, inviteCodeUsed and joinTimestamp of every record as
\* they were, and deletes and creates no record.
C28_LeaveAndValidationKeepFixedFields ==
    [][ ( \/ \E g \in Guilds, u \in Users :
                MarkJoinsAsLeftEarly(g, u) \/ MarkJoinsAsLeftEarlyFails(g, u)
          \/ \E r \in Runs : Validate(r) )
        => /\ DOMAIN trackedJoins' = DOMAIN trackedJoins
           /\ \A id \in Ids : FixedFields(trackedJoins'[id]) = FixedFields(trackedJoins[id]) ]_vars

\* a record that joined at time 0 through inviter b was a candidate of a
\* run and left before the run's bulkWrite, which then modified nothing: the
\* leave handler and the validation task both went over it
C28_Witness ==
    /\ pc["interval"] = "finally"
    /\ bulkResult["interval"] = [ error |-> "none", modifiedCount |-> 0 ]
    /\ \E id \in DOMAIN bulkOps["interval"] :
          /\ trackedJoins[id].status = "left_early"
          /\ trackedJoins[id].leaveTimestamp # NoDate
          /\ trackedJoins[id].validationTimestamp = NoDate
          /\ trackedJoins[id].joinTimestamp = 0
          /\ trackedJoins[id].inviterId = "b"
          /\ trackedJoins[id].inviteCodeUsed = "cB"

\* C29: a cache refresh and the live fetch of the join handler issue their
\* guild.invites.fetch() only after a passed permission check of the same
\* call, and exactly then.
C29_FetchOnlyAfterPermissionCheck ==
    [][ /\ \A fetchOk \in BOOLEAN :
              (JoinFetch(fetchOk) \/ JoinRefresh(fetchOk))
              => LET granted == HasRequiredPermissions(permissions[joinCall.guildId])
                 IN /\ lastOp'.fetches = 1 => granted
                    /\ lastOp'.op = "refresh" => (lastOp'.fetches = 1 <=> granted)
                    /\ lastOp'.op # "refresh"
                          => /\ lastOp'.liveFetches = 1 <=> granted
                             /\ lastOp'.fetches = 1
                                   <=> (granted /\ joinCall.guildId \notin DOMAIN inviteUsesCache)
                    /\ ~granted => /\ joinCall'.currentInvites = {}
                                   /\ lastOp'.op # "ensure_refresh"
        /\ \A fetchOk \in BOOLEAN :
              JoinEnsure(fetchOk) => lastOp'.liveFetches = 0 ]_vars

\* the handler's final refresh has just found the permission withdrawn and
\* has not fetched; the entry is gone
C29_Witness ==
    /\ lastOp.op = "refresh"
    /\ lastOp.fetches = 0
    /\ lastOp.returned = FALSE
    /\ permissions[lastOp.guildId] = "unavailable"
    /\ lastOp.guildId \notin DOMAIN inviteUsesCache
    /\ joinCall = NoJoinCall
    /\ otherJoinCall = NoJoinCall
    /\ clientGuilds = DOMAIN liveInvites
    /\ events > 0

\* C30: a join event that finds the permission absent at its permission
\* check ends there, and one that finds it absent at its live fetch gets
\* null for the live invites; from there on the handler creates and changes
\* no TrackedJoin, hands nothing to the cleanup and deletes no UserInvite.
C30_NoAttributionWithoutPermission ==
    [][ /\ \A u \in Users, usable \in BOOLEAN :
              (JoinStart("g1", u, usable) /\ ~HasRequiredPermissions(permissions["g1"]))
              => /\ joinCall' = NoJoinCall
                 /\ UNCHANGED << storeVars, inviteVars >>
        /\ \A fetchOk \in BOOLEAN :
              (JoinFetch(fetchOk) /\ ~HasRequiredPermissions(permissions[joinCall.guildId]))
              => /\ joinCall'.currentInvites = {}
                 /\ joinCall'.pc \in {"tracked", "idle"}
                 /\ UNCHANGED << storeVars, inviteVars >>
        /\ (joinCall.currentInvites = {} /\ joinCall.pc \in {"tracked", "refresh"})
              => /\ joinCall'.pc \in {"tracked", "refresh", "idle"}
                 /\ joinCall'.attribution = {}
                 /\ HandlerStep => UNCHANGED << storeVars, userInvites, staleCleanup >> ]_vars

\* the permission was withdrawn between the handler's permission check and
\* its live fetch; the engine has run on null and the handler goes to the
\* refresh with no TrackedJoin written, although a tracked code went up
C30_Witness ==
    /\ joinCall.pc = "refresh"
    /\ joinCall.currentInvites = {}
    /\ permissions[joinCall.guildId] = "denied"
    /\ joinCall.guildId \in DOMAIN inviteUsesCache
    /\ \E id \in Tracked :
          /\ userInvites[id].inviteCode \in DOMAIN liveInvites[joinCall.guildId] \cap DOMAIN Cached
          /\ Uses(liveInvites[joinCall.guildId][userInvites[id].inviteCode])
                > Cached[userInvites[id].inviteCode]
    /\ trackedJoins = << >>
    /\ inserting = EmptyBag

\* the TrackedJoin records of a community with the given inviter and status
RecordsOf(guildId, inviterId, status) ==
    { id \in Ids : /\ trackedJoins[id].guildId = guildId
                   /\ trackedJoins[id].inviterId = inviterId
                   /\ trackedJoins[id].status = status }

\* C22: every leaderboard entry of a community carries the number of the
\* community's validated records of its inviter, the entries come in
\* non-increasing count with no inviter twice, there are at most
\* LEADERBOARD_LIMIT of them and an inviter is left out only when the limit
\* is reached by inviters with at least as many; and the validated and the
\* pending count of /invite are the numbers of the caller's records of that
\* status in the community when the count is taken.
C22_CountsAreRecordCounts ==
    [][ /\ \A g \in Communities :
              (Leaderboard(g, TRUE) /\ lastOp'.op = "leaderboard")
              => LET L == lastOp'.leaderboardEntries
                 IN /\ Len(L) <= LEADERBOARD_LIMIT
                    /\ \A i \in DOMAIN L :
                          /\ L[i].count = Cardinality(RecordsOf(g, L[i].userId, "validated"))
                          /\ L[i].count > 0
                    /\ \A i, j \in DOMAIN L :
                          i < j => L[i].count >= L[j].count /\ L[i].userId # L[j].userId
                    /\ \A id \in Ids :
                          (trackedJoins[id].guildId = g /\ trackedJoins[id].status = "validated")
                          => \/ \E i \in DOMAIN L : L[i].userId = trackedJoins[id].inviterId
                             \/ /\ Len(L) = LEADERBOARD_LIMIT
                                /\ \A i \in DOMAIN L : L[i].count >=
                                      Cardinality(RecordsOf(g, trackedJoins[id].inviterId, "validated"))
        /\ \A s \in Slots :
              InviteCmdCountValidated(s, TRUE)
              => inviteCmd'[s].validatedCount =
                    Cardinality(RecordsOf(inviteCmd[s].guildId, inviteCmd[s].userId, "validated"))
        /\ \A s \in Slots :
              InviteCmdCountPending(s, TRUE)
              => /\ lastOp'.pendingCount =
                       Cardinality(RecordsOf(inviteCmd[s].guildId, inviteCmd[s].userId, "pending"))
                 /\ lastOp'.validatedCount = inviteCmd[s].validatedCount ]_vars

\* the leaderboard of g1 has just listed a with two validated joins before
\* b with one
C22_Witness ==
    /\ lastOp.op = "leaderboard"
    /\ lastOp.guildId = "g1"
    /\ lastOp.leaderboardEntries = << [ userId |-> "a", count |-> 2 ], [ userId |-> "b", count |-> 1 ] >>
    /\ Cardinality(Ids) = MaxRecords

\* C23: a step removes TrackedJoin documents only when it is the GuildDelete
\* handler with PERFORM_GUILD_DELETE_CLEANUP on, and then it removes the
\* documents of that guild, all of them and no other; the join handler, the
\* leave handler, the validation task and the stale-invite cleanup remove
\* none, and with the cleanup off GuildDelete leaves the collection as it is.
C23_OnlyGuildCleanupDeletes ==
    [][ /\ (Ids \ DOMAIN trackedJoins' # {})
              => /\ PERFORM_GUILD_DELETE_CLEANUP
                 /\ \E g \in Communities :
                       /\ GuildDelete(g, TRUE, TRUE)
                       /\ Ids \ DOMAIN trackedJoins' = { id \in Ids : trackedJoins[id].guildId = g }
                       /\ \A id \in DOMAIN trackedJoins' : trackedJoins'[id] = trackedJoins[id]
        /\ \A g \in Communities, idKnown \in BOOLEAN, dbOk \in BOOLEAN :
              (GuildDelete(g, idKnown, dbOk) /\ ~PERFORM_GUILD_DELETE_CLEANUP)
              => UNCHANGED << trackedJoins, inserting, userInvites, guildCleanup >>
        /\ ( \/ \E call \in staleCleanup, dbOk \in BOOLEAN : CleanupStaleInvites(call, dbOk)
             \/ \E u \in Users : MarkJoinsAsLeftEarly("g1", u)
             \/ Validate("interval")
             \/ HandlerStep )
              => Ids \subseteq DOMAIN trackedJoins' ]_vars

\* the bot has just been removed from g1 with the cleanup off: the cache
\* entry is gone and the pending join of g1 is still in the collection
C23_Witness ==
    /\ ~PERFORM_GUILD_DELETE_CLEANUP
    /\ lastOp = [ op |-> "guild_delete", guildId |-> "g1", cleanup |-> "disabled" ]
    /\ "g1" \notin DOMAIN inviteUsesCache
    /\ \E id \in Ids : trackedJoins[id].guildId = "g1" /\ trackedJoins[id].status = "pending"

\* C24: no two UserInvite documents have the same userId and guildId.
C24_OneUserInvitePerPair ==
    \A i, j \in DOMAIN userInvites :
        (userInvites[i].userId = userInvites[j].userId /\ userInvites[i].guildId = userInvites[j].guildId)
        => i = j

\* two /invite commands of one user found no document; the first has
\* inserted its code, and the second is about to insert another one
C24_Witness ==
    /\ inviteCmd[2].pc = "insert"
    /\ inviteCmd[1].pc \in { "count_validated", "count_pending" }
    /\ inviteCmd[1].userId = inviteCmd[2].userId
    /\ inviteCmd[1].newCode # {}
    /\ inviteCmd[1].newCode # inviteCmd[2].newCode
    /\ \E id \in UserInviteMatches(userInvites, inviteCmd[2].userId, inviteCmd[2].guildId) :
          { userInvites[id].inviteCode } = inviteCmd[1].newCode

\* C31: once the handler of a join event has returned at its permission
\* check, the cache holds no entry for that community.
C31_JoinWithoutPermissionDropsEntry ==
    (lastOp.op = "join_return" /\ lastOp.step = "permissions")
        => lastOp.guildId \notin DOMAIN inviteUsesCache

\* C32: a store error in the join handler (reading the tracked invites or
\* writing the TrackedJoin) writes no TrackedJoin and leaves the handler at
\* its cache refresh; the refresh then ends the handler without a write and
\* leaves the community either uncached or cached with the counts of that
\* moment, which the next join is compared against.
C32_StoreErrorFailsOnlyThatEvent ==
    [][ /\ lastOp'.op = "join_error"
            => /\ UNCHANGED storeVars
               /\ joinCall'.pc = "refresh"
               /\ joinCall'.guildId = joinCall.guildId
               /\ joinCall'.userId = joinCall.userId
        /\ (joinCall.pc = "refresh" /\ joinCall' # joinCall)
            => /\ UNCHANGED storeVars
               /\ joinCall' = NoJoinCall
               /\ joinCall.guildId \in DOMAIN inviteUsesCache'
                    => inviteUsesCache'[joinCall.guildId]
                           = UsesMap(liveInvites[joinCall.guildId]) ]_vars

\* the write of an attribution to a has just failed: the store is still
\* empty and the handler stands before its refresh
C32_Witness ==
    /\ lastOp = [ op |-> "join_error", guildId |-> "g1", step |-> "write" ]
    /\ joinCall.pc = "refresh"
    /\ \E att \in joinCall.attribution : att.inviterId = "a" /\ att.inviteCode = "cA"
    /\ trackedJoins = << >>
    /\ inserting = EmptyBag

\* ------------------------------------------------ two runs that overlap
\* the stores the joins of g1 leave behind by time 1: one pending record per
\* member, joined at time 0 through a or b
PendingStores ==
    { docs \in [ 1..2 -> { [ guildId |-> "g1", inviteeId |-> u,
                             inviterId |-> att.inviterId,
                             inviteCodeUsed |-> att.inviteCode,
                             joinTimestamp |-> 0, status |-> "pending",
                             validationTimestamp |-> NoDate,
                             leaveTimestamp |-> NoDate ] :
                           u \in Users, att \in Attributions } ] :
        docs[1].inviteeId = "u1" /\ docs[2].inviteeId = "u2" }

InitOverlap ==
    /\ now = VALIDATION_PERIOD_MS
    /\ stripsUndefined \in BOOLEAN
    /\ trackedJoins \in PendingStores
    /\ inserting = EmptyBag
    /\ events = 0
    /\ lastOp = NoOp
    /\ pc = [ r \in Runs |-> "idle" ]
    /\ validationCutoffDate = [ r \in Runs |-> 0 ]
    /\ validationTime = [ r \in Runs |-> 0 ]
    /\ candidates = [ r \in Runs |-> {} ]
    /\ todo = [ r \in Runs |-> {} ]
    /\ guildMemberPresenceCache = [ r \in Runs |-> << >> ]
    /\ bulkOps = [ r \in Runs |-> << >> ]
    /\ bulkResult = [ r \in Runs |-> NoBulkResult ]
    /\ liveInvites = [ g \in Guilds |-> << >> ]
    /\ permissions = [ g \in Guilds |-> "granted" ]
    /\ inviteUsesCache = << >>
    /\ userInvites = << >>
    /\ staleCleanup = {}
    /\ joinCall = NoJoinCall
    /\ otherJoinCall = NoJoinCall
    /\ clientGuilds = DOMAIN liveInvites
    /\ NoCommands

\* the setTimeout run and the setInterval run are separate calls of
\* validatePendingJoins with nothing to keep them apart: their steps
\* interleave at every await, while members leave and the clock goes on
NextOverlap ==
    \/ Advance
    \/ \E u \in Users : MarkJoinsAsLeftEarly("g1", u)
    \/ Validate("initial")
    \/ Validate("interval")

SpecOverlap == InitOverlap /\ [][NextOverlap]_vars

\* ------------------------------------------------ the fire-and-forget cleanup
\* every deleteMany _cleanupStaleInvites can have under way in g1
StaleCalls ==
    { [ ids |-> ids, guildId |-> "g1" ] : ids \in UNION { [ 1..n -> 1..2 ] : n \in 1..2 } }

\* join handlers of g1 while invites are used and deleted
NextCleanup ==
    \/ \E code \in {"cA", "cB"} : UseInvite("g1", code)
    \/ \E code \in {"cA", "cB"} : DeleteInvite("g1", code)
    \/ \E u \in Users : JoinStart("g1", u, TRUE)
    \/ \E fetchOk \in BOOLEAN : JoinFetch(fetchOk)
    \/ \E fetchOk \in BOOLEAN : JoinEnsure(fetchOk)
    \/ \E dbOk \in BOOLEAN : JoinTracked(dbOk)
    \/ JoinRecord
    \/ JoinRecordFails
    \/ JoinInserted
    \/ \E fetchOk \in BOOLEAN : JoinRefresh(fetchOk)
    \/ \E call \in staleCleanup, dbOk \in BOOLEAN : CleanupStaleInvites(call, dbOk)

\* the store answers every deleteMany it was sent, with a result or an error
CleanupFairness ==
    \A call \in StaleCalls : WF_vars(\E dbOk \in BOOLEAN : CleanupStaleInvites(call, dbOk))

SpecCleanup == InitInvites(Guilds, InitialUserInvites) /\ [][NextCleanup]_vars /\ CleanupFairness

\* C33: when the engine returns stale IDs, a delete for exactly those IDs in
\* that community is under way at once and is eventually answered; the
\* delete removes only those records, touches neither the handler, the
\* TrackedJoins nor the cache whether it succeeds or fails, and the handler's
\* refresh is never held up by it.
C33_StaleCleanupIsIssuedAndNotAwaited ==
    /\ [][ (joinCall.pc = "tracked" /\ joinCall'.pc # "tracked"
                /\ Len(joinCall'.staleInviteIds) > 0)
              => [ ids |-> joinCall'.staleInviteIds, guildId |-> joinCall.guildId ]
                     \in staleCleanup' ]_vars
    /\ [][ \A call \in staleCleanup \ staleCleanup' :
              /\ UNCHANGED << joinCall, storeVars, inviteUsesCache >>
              /\ \A id \in DOMAIN userInvites \ DOMAIN userInvites' :
                    /\ \E k \in 1..Len(call.ids) : call.ids[k] = id
                    /\ userInvites[id].guildId = call.guildId
              /\ \A id \in DOMAIN userInvites' : userInvites'[id] = userInvites[id] ]_vars
    /\ [](joinCall.pc = "refresh" => ENABLED (\E fetchOk \in BOOLEAN : JoinRefresh(fetchOk)))
    /\ \A call \in StaleCalls : (call \in staleCleanup) ~> (call \notin staleCleanup)

\* the handler has written its TrackedJoin and refreshed the cache while the
\* delete of the stale record is still under way
C33_Witness ==
    /\ staleCleanup # {}
    /\ joinCall.pc = "idle"
    /\ lastOp.op = "refresh"
    /\ lastOp.returned
    /\ \E id \in Ids : trackedJoins[id].status = "pending"
    /\ \A call \in staleCleanup : \A k \in 1..Len(call.ids) : call.ids[k] \in DOMAIN userInvites

\* ------------------------------------------------- two handlers in flight
\* the event loop leaves the handler it was running at an await and goes on
\* with the other one
SwitchHandler ==
    /\ joinCall # otherJoinCall
    /\ joinCall' = otherJoinCall
    /\ otherJoinCall' = joinCall
    /\ lastOp' = NoOp
    /\ UNCHANGED << now, stripsUndefined, clientGuilds, commandVars, events, storeVars, runVars,
                    platformVars, inviteVars >>

\* the join handlers of two different members of g1, interleaved at their
\* awaits, while invites are used
NextTwoJoins ==
    \/ \E code \in {"cA", "cB"} : UseInvite("g1", code)
    \/ \E u \in Users : (u # otherJoinCall.userId /\ JoinStart("g1", u, TRUE))
    \/ \E fetchOk \in BOOLEAN : JoinFetch(fetchOk)
    \/ \E fetchOk \in BOOLEAN : JoinEnsure(fetchOk)
    \/ \E dbOk \in BOOLEAN : JoinTracked(dbOk)
    \/ JoinRecord
    \/ JoinInserted
    \/ \E fetchOk \in BOOLEAN : JoinRefresh(fetchOk)
    \/ \E call \in staleCleanup, dbOk \in BOOLEAN : CleanupStaleInvites(call, dbOk)
    \/ SwitchHandler

SpecTwoJoins == InitInvites(Guilds, InitialUserInvites) /\ [][NextTwoJoins]_vars

\* C37: the members attributed to a code are never more than the uses the
\* code has had: one increase of a tracked invite's count gives at most one
\* TrackedJoin attribution, also when two join handlers overlap.
C37_OneAttributionPerUse ==
    \A code \in DOMAIN liveInvites["g1"] :
        Cardinality({ trackedJoins[id].inviteeId :
                        id \in { i \in Ids : /\ trackedJoins[i].guildId = "g1"
                                             /\ trackedJoins[i].inviteCodeUsed = code } })
            <= Uses(liveInvites["g1"][code])

\* ------------------------------------- a handler in flight at guild delete
\* step 10 up to its await: cacheGuildInvites checks the permission, deleting
\* the entry and returning when it is missing, and otherwise sends
\* guild.invites.fetch(); the platform answers with the invites it has then
JoinRefreshIssue(fetchOk) ==
    /\ joinCall.pc = "refresh"
    /\ LET g == joinCall.guildId
       IN IF HasRequiredPermissions(permissions[g])
          THEN /\ joinCall' = [ joinCall EXCEPT !.pc = "refreshing",
                     !.fetched = IF fetchOk THEN { UsesMap(liveInvites[g]) } ELSE {} ]
               /\ lastOp' = NoOp
               /\ UNCHANGED << inviteUsesCache, otherJoinCall >>
          ELSE /\ inviteUsesCache' = CacheDelete(inviteUsesCache, g)
               /\ otherJoinCall' = Detach(otherJoinCall, g, inviteUsesCache)
               /\ joinCall' = NoJoinCall
               /\ lastOp' = [ op |-> "refresh", guildId |-> g, returned |-> FALSE,
                              fetches |-> InviteFetches(permissions[g]) ]
    /\ UNCHANGED << now, stripsUndefined, clientGuilds, commandVars, events, storeVars, runVars,
                    platformVars, userInvites, staleCleanup >>

\* step 10 after its await: the answer is set as the entry, or the error is
\* caught and the entry deleted; the handler ends
JoinRefreshReturn ==
    /\ joinCall.pc = "refreshing"
    /\ LET g == joinCall.guildId
       IN /\ inviteUsesCache' = IF joinCall.fetched # {}
                THEN CacheSet(inviteUsesCache, g, CHOOSE m \in joinCall.fetched : TRUE)
                ELSE CacheDelete(inviteUsesCache, g)
          /\ otherJoinCall' = Detach(otherJoinCall, g, inviteUsesCache)
          /\ lastOp' = [ op |-> "refresh", guildId |-> g, returned |-> joinCall.fetched # {},
                         fetches |-> 1 ]
    /\ joinCall' = NoJoinCall
    /\ UNCHANGED << now, stripsUndefined, clientGuilds, commandVars, events, storeVars, runVars,
                    platformVars, userInvites, staleCleanup >>

\* the bot is removed from g1 while members join: the platform stops
\* answering for the guild, then the gateway delivers GuildDelete; the bot
\* does not come back
NextLeave ==
    \/ \E code \in {"cA", "cB"} : UseInvite("g1", code)
    \/ (permissions["g1"] = "granted" /\ SetPermissions("g1", "unavailable"))
    \/ \E dbOk \in BOOLEAN :
          (permissions["g1"] = "unavailable" /\ "g1" \in clientGuilds /\ GuildDelete("g1", TRUE, dbOk))
    \/ \E g \in guildCleanup, dbOk \in BOOLEAN : GuildCleanupInvites(g, dbOk)
    \/ \E u \in Users : JoinStart("g1", u, TRUE)
    \/ \E fetchOk \in BOOLEAN : JoinFetch(fetchOk)
    \/ \E fetchOk \in BOOLEAN : JoinEnsure(fetchOk)
    \/ \E dbOk \in BOOLEAN : JoinTracked(dbOk)
    \/ JoinRecord
    \/ JoinInserted
    \/ \E fetchOk \in BOOLEAN : JoinRefreshIssue(fetchOk)
    \/ JoinRefreshReturn

SpecLeave == InitGuild /\ [][NextLeave]_vars

\* C35: once GuildDelete has been handled for a community, the cache holds
\* no entry for it for as long as the bot stays out, also when a join
\* handler of that community was suspended at an await at that moment.
C35_NoEntryAfterGuildDelete ==
    \A g \in Guilds : g \notin clientGuilds => g \notin DOMAIN inviteUsesCache

\* ------------------------------------- /invite while a handler is in flight
\* the bot is ready in g1, where a has a UserInvite whose invite is live or
\* gone, or has none yet
InitRace ==
    /\ InitLinks
    /\ staleCleanup = {}

\* a member joins g1 and a asks for the link while the handler runs, with
\* invites used and deleted on the platform
NextRace ==
    \/ \E dbOk \in BOOLEAN : InviteCmdStart(1, "g1", "a", dbOk)
    \/ InviteCmd(1)
    \/ \E code \in Codes : UseInvite("g1", code)
    \/ \E code \in Codes : DeleteInvite("g1", code)
    \/ JoinStart("g1", "u1", TRUE)
    \/ \E fetchOk \in BOOLEAN : JoinFetch(fetchOk)
    \/ \E fetchOk \in BOOLEAN : JoinEnsure(fetchOk)
    \/ \E dbOk \in BOOLEAN : JoinTracked(dbOk)
    \/ JoinRecord
    \/ JoinInserted
    \/ \E fetchOk \in BOOLEAN : JoinRefresh(fetchOk)
    \/ \E call \in staleCleanup, dbOk \in BOOLEAN : CleanupStaleInvites(call, dbOk)

SpecRace == InitRace /\ [][NextRace]_vars

\* C36: the deleteMany of a stale cleanup removes only InviteRecords whose
\* inviteCode, as it is at the time of the delete, is not a live invite of
\* the community; a record whose code /invite created or replaced after the
\* handler's fetch is left alone.
C36_CleanupDeletesOnlyDeadCodes ==
    [][ \A call \in staleCleanup \ staleCleanup' :
          \A id \in DOMAIN userInvites \ DOMAIN userInvites' :
              userInvites[id].inviteCode \notin DOMAIN liveInvites[userInvites[id].guildId] ]_vars

\* --------------------------------------------------- one join at a time
\* the owners of the UserInvite records of guildId that name the code
TrackedOwners(docs, guildId, code) ==
    { [ inviterId |-> docs[i].userId, inviteCode |-> code ] :
        i \in { j \in DOMAIN docs : docs[j].guildId = guildId /\ docs[j].inviteCode = code } }

\* all uses the invites of a guild have had
RECURSIVE TotalUses(_)
TotalUses(invites) ==
    IF DOMAIN invites = {} THEN 0
    ELSE LET code == CHOOSE c \in DOMAIN invites : TRUE
         IN Uses(invites[code])
              + TotalUses([ c \in DOMAIN invites \ {code} |-> invites[c] ])

\* a member comes in through an invite and GuildMemberAdd is handled up to
\* the settle delay: the use count goes up, the member data are usable, the
\* handler checks the permission
MemberJoins(g, u, code) ==
    /\ joinCall.pc = "idle"
    /\ code \in DOMAIN liveInvites[g]
    /\ TotalUses(liveInvites[g]) < MaxEvents
    /\ liveInvites' = [ liveInvites EXCEPT ![g][code] =
                          [ uses |-> { Uses(liveInvites[g][code]) + 1 } ] ]
    /\ IF HasRequiredPermissions(permissions[g])
       THEN /\ joinCall' = [ NoJoinCall EXCEPT !.pc = "fetch", !.guildId = g, !.userId = u,
                                !.inviteUsed = TrackedOwners(userInvites, g, code),
                                !.cacheExisted = (g \in DOMAIN inviteUsesCache) ]
            /\ lastOp' = NoOp
       ELSE /\ joinCall' = NoJoinCall
            /\ lastOp' = [ op |-> "join_return", guildId |-> g, step |-> "permissions" ]
    /\ UNCHANGED << now, stripsUndefined, otherJoinCall, clientGuilds, commandVars, events,
                    storeVars, runVars, permissions, inviteVars >>

\* the joins of g1 handled one after the other with every fetch and store
\* call answering; between two joins the bot's permission changes and
\* invites are deleted
NextSequential ==
    \/ \E u \in Users, code \in {"cA", "cB"} : MemberJoins("g1", u, code)
    \/ \E perm \in { "granted", "denied" } : (joinCall.pc = "idle" /\ SetPermissions("g1", perm))
    \/ \E code \in {"cA", "cB"} : (joinCall.pc = "idle" /\ DeleteInvite("g1", code))
    \/ JoinFetch(TRUE)
    \/ JoinEnsure(TRUE)
    \/ JoinTracked(TRUE)
    \/ JoinRecord
    \/ JoinInserted
    \/ JoinRefresh(TRUE)
    \/ \E call \in staleCleanup : CleanupStaleInvites(call, TRUE)

SpecSequential == InitInvites(Guilds, InitialUserInvites) /\ [][NextSequential]_vars

\* C38: with the joins handled one at a time, a cache entry in place before
\* the join, the permission held and no call failing, the handler of a
\* member who came through a tracked invite has, by its final refresh,
\* written a pending TrackedJoin naming that invite's owner and code.
C38_SequentialJoinIsAttributed ==
    (joinCall.pc = "refresh" /\ joinCall.cacheExisted)
        => \A used \in joinCall.inviteUsed :
              \E id \in Ids :
                  /\ trackedJoins[id].guildId = joinCall.guildId
                  /\ trackedJoins[id].inviteeId = joinCall.userId
                  /\ trackedJoins[id].status = "pending"
                  /\ trackedJoins[id].inviterId = used.inviterId
                  /\ trackedJoins[id].inviteCodeUsed = used.inviteCode

\* ------------------------------------------- the validation task for ever
\* the joins of g1 have been recorded at time 0; the validation period may
\* or may not have passed
InitLive ==
    /\ now \in 0..VALIDATION_PERIOD_MS
    /\ stripsUndefined \in BOOLEAN
    /\ trackedJoins \in PendingStores
    /\ inserting = EmptyBag
    /\ events = 0
    /\ lastOp = NoOp
    /\ pc = [ r \in Runs |-> "idle" ]
    /\ validationCutoffDate = [ r \in Runs |-> 0 ]
    /\ validationTime = [ r \in Runs |-> 0 ]
    /\ candidates = [ r \in Runs |-> {} ]
    /\ todo = [ r \in Runs |-> {} ]
    /\ guildMemberPresenceCache = [ r \in Runs |-> << >> ]
    /\ bulkOps = [ r \in Runs |-> << >> ]
    /\ bulkResult = [ r \in Runs |-> NoBulkResult ]
    /\ liveInvites = [ g \in Guilds |-> << >> ]
    /\ permissions = [ g \in Guilds |-> "granted" ]
    /\ inviteUsesCache = << >>
    /\ userInvites = << >>
    /\ staleCleanup = {}
    /\ joinCall = NoJoinCall
    /\ otherJoinCall = NoJoinCall
    /\ clientGuilds = DOMAIN liveInvites
    /\ NoCommands

\* the steps of a run after its timer has fired
ValidateSteps(r) ==
    \/ ValidateFind(r)
    \/ ValidateFindFails(r)
    \/ \E k \in BOOLEAN, f \in FetchAnswers : ValidateCandidate(r, k, f)
    \/ ValidateWrite(r)
    \/ ValidateNoWrite(r)
    \/ ValidateWriteFails(r)
    \/ ValidateFinally(r)

\* the presence lookup of record id in run r answers present or
\* confirmed-absent, the community being known
LookupAnswers(r, id) ==
    /\ todo[r] # {}
    /\ id = Min(todo[r])
    /\ \E f \in { "member", "unknown_member", "unknown_user" } : ValidateCandidate(r, TRUE, f)

\* the interval timer keeps firing while members leave and the clock goes on
NextLive ==
    \/ Advance
    \/ \E u \in Users : MarkJoinsAsLeftEarly("g1", u)
    \/ ValidateTick("interval")
    \/ ValidateSteps("interval")

\* setInterval fires again after every run, a run that has started goes on
\* to its end, the store answers a find and a bulk write that are issued
\* again and again, and so does the presence lookup of each record
LiveFairness ==
    /\ WF_vars(ValidateTick("interval"))
    /\ WF_vars(ValidateSteps("interval"))
    /\ SF_vars(ValidateFind("interval"))
    /\ SF_vars(ValidateWrite("interval"))
    /\ \A id \in 1..2 : SF_vars(LookupAnswers("interval", id))

SpecLive == InitLive /\ [][NextLive]_vars /\ LiveFairness

C39_SecondBulkWriteKeepsFirst ==
    [][ \A r \in Runs :
          (pc[r] = "write" /\ pc'[r] = "finally")
              => \A id \in Ids :
                    trackedJoins[id].status # "pending"
                        => trackedJoins'[id] = trackedJoins[id] ]_vars

\* both runs have written; they held opposite decisions for record 1, the
\* post-startup run modified it and the interval run modified nothing
C39_Witness ==
    /\ pc["initial"] = "finally"
    /\ pc["interval"] = "finally"
    /\ 1 \in DOMAIN bulkOps["initial"]
    /\ 1 \in DOMAIN bulkOps["interval"]
    /\ bulkOps["initial"][1].status = "validated"
    /\ bulkOps["interval"][1].status = "left_early"
    /\ bulkResult["initial"] = [ error |-> "none", modifiedCount |-> 1 ]
    /\ bulkResult["interval"] = [ error |-> "none", modifiedCount |-> 0 ]
    /\ trackedJoins[1].status = "validated"
    /\ trackedJoins[1].leaveTimestamp = NoDate

\* C40: every TrackedJoin has one of the three statuses; a validated record
\* has a validationTimestamp and a left_early record has a leaveTimestamp.
C40_StatusAndTimestampsAgree ==
    \A id \in Ids :
        /\ trackedJoins[id].status \in { "pending", "validated", "left_early" }
        /\ trackedJoins[id].status = "validated" => trackedJoins[id].validationTimestamp # NoDate
        /\ trackedJoins[id].status = "left_early" => trackedJoins[id].leaveTimestamp # NoDate

\* a run has moved a record to validated and stamped it, beside a record
\* that is still pending
C40_Witness ==
    \E i, j \in Ids :
        /\ trackedJoins[i].status = "validated"
        /\ trackedJoins[i].validationTimestamp = {validationTime["interval"]}
        /\ trackedJoins[i].leaveTimestamp = NoDate
        /\ trackedJoins[j].status = "pending"
        /\ bulkResult["interval"].modifiedCount = 1

====
